---- MODULE Spec2Model ----
(***************************************************************************)
(* A model of the InfluxQL SELECT rewriter and field checker of            *)
(* iox_query_influxql (src/iox_query_influxql/src/plan/rewriter.rs), of    *)
(* the selector aggregates of query_functions (selectors/internal.rs) and  *)
(* of the Authorizer trait of authz (src/authz/src/lib.rs).                *)
(*                                                                         *)
(* rewrite_statement is modelled as the sequence of passes it calls       *)
(* (map_select, from_drop_empty, field_list_normalize_time,                *)
(* field_list_rewrite_aliases, has_multiple_measurements), each pass an    *)
(* action over the statement being rewritten; select_statement_info is     *)
(* modelled as the FieldChecker walking the projection list.               *)
(*                                                                         *)
(* Clauses of the statement that the passes only copy (condition,          *)
(* order_by, limit, offset, timezone) are not part of the state.           *)
(***************************************************************************)
EXTENDS Integers, Sequences, FiniteSets, TLC

VARIABLES pc, stmt, sel, result, fc, idx, info, selector, seen, authz

vars == <<pc, stmt, sel, result, fc, idx, info, selector, seen, authz>>

(* the state of the rewriter and of the field checker                      *)
rewriter == <<pc, stmt, sel, result, fc, idx, info>>

-----------------------------------------------------------------------------
(* Option<T>: None is the empty sequence, Some(x) the one-element sequence *)

None == <<>>

Some(x) == <<x>>

IsSome(o) == o # <<>>

(* Result<T>: Ok(v) or Err(e); the error keeps its category and message    *)

NoError == [category |-> "", msg |-> ""]

Ok(v) == [ok |-> TRUE, val |-> v, err |-> NoError]

Err(cat, m) == [ok |-> FALSE, val |-> <<>>, err |-> [category |-> cat, msg |-> m]]

-----------------------------------------------------------------------------
(* The syntax tree.  Every expression is a record of one shape:            *)
(*   kind  VarRef | Call | Binary | Nested | Wildcard | Distinct | Literal *)
(*         | BindParameter                                                 *)
(*   name  the referent, the function, the operator, the literal's type    *)
(*   dt    VarRef: Option<VarRefDataType>; Wildcard: Option<WildcardType>  *)
(*   args  Call: the arguments; Binary: <<lhs, rhs>>; Nested: <<inner>>    *)
(*   num   the value of an Integer, Float or Duration literal              *)
(*   str   the value of a String literal, the source of a Regex literal    *)

VarRef(n, dt) == [kind |-> "VarRef", name |-> n, dt |-> dt, args |-> <<>>, num |-> 0, str |-> ""]

Call(n, args) == [kind |-> "Call", name |-> n, dt |-> None, args |-> args, num |-> 0, str |-> ""]

Binary(l, op, r) == [kind |-> "Binary", name |-> op, dt |-> None, args |-> <<l, r>>, num |-> 0, str |-> ""]

Nested(e) == [kind |-> "Nested", name |-> "", dt |-> None, args |-> <<e>>, num |-> 0, str |-> ""]

Wildcard(wt) == [kind |-> "Wildcard", name |-> "", dt |-> wt, args |-> <<>>, num |-> 0, str |-> ""]

Distinct(n) == [kind |-> "Distinct", name |-> n, dt |-> None, args |-> <<>>, num |-> 0, str |-> ""]

LitInteger(v) == [kind |-> "Literal", name |-> "Integer", dt |-> None, args |-> <<>>, num |-> v, str |-> ""]

LitFloat(v) == [kind |-> "Literal", name |-> "Float", dt |-> None, args |-> <<>>, num |-> v, str |-> ""]

LitDuration(v) == [kind |-> "Literal", name |-> "Duration", dt |-> None, args |-> <<>>, num |-> v, str |-> ""]

LitString(s) == [kind |-> "Literal", name |-> "String", dt |-> None, args |-> <<>>, num |-> 0, str |-> s]

LitRegex(re) == [kind |-> "Literal", name |-> "Regex", dt |-> None, args |-> <<>>, num |-> 0, str |-> re]

IsVarRef(e) == e.kind = "VarRef"

IsCall(e) == e.kind = "Call"

IsLiteral(e) == e.kind = "Literal"

IsRegexLiteral(e) == e.kind = "Literal" /\ e.name = "Regex"

IsWildcard(e) == e.kind = "Wildcard"

(* Field{expr, alias: Option<String>}                                      *)

Field(e, a) == [expr |-> e, alias |-> a]

(* Dimension: Time | Tag(name) | Regex(re) | Wildcard                      *)

DimTime == [kind |-> "Time", name |-> ""]

DimTag(n) == [kind |-> "Tag", name |-> n]

DimRegex(re) == [kind |-> "Regex", name |-> re]

DimWildcard == [kind |-> "Wildcard", name |-> ""]

(* MeasurementSelection of the parsed statement                            *)

MName(n) == [kind |-> "Name", name |-> n, q |-> <<>>]

MRegex(re) == [kind |-> "Regex", name |-> re, q |-> <<>>]

MSubquery(s) == [kind |-> "Subquery", name |-> "", q |-> <<s>>]

(* DataSource of the intermediate representation                           *)

Table(n) == [kind |-> "Table", name |-> n, q |-> <<>>]

Subquery(s) == [kind |-> "Subquery", name |-> "", q |-> <<s>>]

(* SelectStatement (parser) and Select (ir)                                *)

SelectStatement(fs, from, gb, fill, slimit, soffset) == [fields |-> fs, from |-> from, group_by |-> gb, fill |-> fill, series_limit |-> slimit, series_offset |-> soffset]

Select(fs, from, gb, fill) == [fields |-> fs, from |-> from, group_by |-> gb, fill |-> fill]

EmptySelect == Select(<<>>, <<>>, None, None)

-----------------------------------------------------------------------------
(* Walking expressions                                                     *)

RECURSIVE SubExprs(_)

(* walk_expr: every node of an expression, the expression itself included *)
SubExprs(e) == {e} \cup UNION {SubExprs(e.args[i]) : i \in DOMAIN e.args}

VarRefNames(e) == {x.name : x \in {y \in SubExprs(e) : IsVarRef(y)}}

ContainsWildcardOrRegex(e) == \E x \in SubExprs(e) : IsWildcard(x) \/ IsRegexLiteral(x)

(* Sequence helpers                                                        *)

RECURSIVE SeqConcat(_)

SeqConcat(ss) == IF ss = <<>> THEN <<>> ELSE Head(ss) \o SeqConcat(Tail(ss))

RECURSIVE SelectSeqIdx(_, _, _)

(* the subsequence of s at the indices in keep, order kept                 *)
SelectSeqIdx(s, keep, i) == IF i > Len(s) THEN <<>> ELSE (IF i \in keep THEN <<s[i]>> ELSE <<>>) \o SelectSeqIdx(s, keep, i + 1)

Range(s) == {s[i] : i \in DOMAIN s}

RemoveAt(s, i) == SubSeq(s, 1, i - 1) \o SubSeq(s, i + 1, Len(s))

-----------------------------------------------------------------------------
(* The schema (SchemaProvider) the statements are rewritten against: the   *)
(* measurements cpu, disk and temp_01 with the columns the end-to-end      *)
(* scenarios show, and all_types with one field of every field type.  A    *)
(* column is a field of some type, a tag, or absent.                       *)

TableNames == <<"all_types", "cpu", "disk", "temp_01">>

TableFields(t) ==
    CASE t = "cpu" -> [n \in {"usage_idle", "usage_system", "usage_user"} |-> "Float"]
      [] t = "disk" -> [n \in {"bytes_free", "bytes_used"} |-> "Integer"]
      [] t = "temp_01" -> [field_f64 |-> "Float", field_i64 |-> "Integer", field_str |-> "String", field_u64 |-> "Unsigned", shared_field0 |-> "Float"]
      [] t = "all_types" -> [field_bool |-> "Boolean", field_f64 |-> "Float", field_i64 |-> "Integer", field_str |-> "String", field_u64 |-> "Unsigned"]
      [] OTHER -> [n \in {} |-> "Float"]

TableTags(t) == CASE t = "cpu" -> {"cpu", "host", "region"} [] t = "disk" -> {"device", "host"} [] t = "all_types" -> {"tag0", "tag1"} [] OTHER -> {}

table_exists(t) == t \in Range(TableNames)

(* table_schema(t).field_type_by_name(n) is Some(InfluxColumnType::Field)  *)
IsFieldColumn(t, n) == table_exists(t) /\ n \in DOMAIN TableFields(t)

IsTagColumn(t, n) == table_exists(t) /\ n \in TableTags(t)

(* The total order of VarRefDataType                                       *)

TypeOrder == <<"Float", "Integer", "Unsigned", "String", "Boolean", "Tag", "Timestamp">>

TypeRank(t) == CHOOSE i \in DOMAIN TypeOrder : TypeOrder[i] = t

TypeLt(a, b) == TypeRank(a) < TypeRank(b)

is_field_type(t) == t \in {"Float", "Integer", "Unsigned", "String", "Boolean"}

is_tag_type(t) == t = "Tag"

(* Regular expressions.  A regex is known by its source text; parsing      *)
(* fails for a malformed source, and is_match is the set of names of the   *)
(* model the pattern occurs in.                                            *)

RegexValid(re) == re # "(not"

RegexMatchSet(re) == CASE re = "^usage" -> {"usage_idle", "usage_system", "usage_user", "usage_user_1", "usage_user_2", "usage_system_usage_idle"} [] re = "host" -> {"host"} [] re = "^d" -> {"disk", "device", "distinct"} [] re = "64$" -> {"field_f64", "field_i64", "field_u64"} [] OTHER -> {}

is_match(re, n) == n \in RegexMatchSet(re)

parse_regex(re) == IF RegexValid(re) THEN Ok(re) ELSE Err("Plan", "invalid regular expression")

(* The byte order of the names that wildcard expansion sorts               *)

NameOrder == <<"", "a", "abs", "all_types", "bytes_free", "bytes_used", "count", "count_usage_idle", "count_usage_system", "count_usage_user", "cpu", "device", "distinct", "field_bool", "field_f64", "field_i64", "field_str", "field_u64", "host", "last", "m_usage_idle", "m_usage_system", "m_usage_user", "max", "mean", "region", "shared_field0", "sum", "t", "tag0", "tag1", "temp_01", "time", "top", "usage_idle", "usage_system", "usage_system_usage_idle", "usage_user", "usage_user_1", "usage_user_2">>

NameRank(n) == CHOOSE i \in DOMAIN NameOrder : NameOrder[i] = n

(* Ord of VarRef: by name, then by data type                               *)
VarRefLt(a, b) == NameRank(a.name) < NameRank(b.name) \/ (a.name = b.name /\ TypeLt(a.dt[1], b.dt[1]))

RECURSIVE SortVarRefs(_)

SortVarRefs(S) == IF S = {} THEN <<>> ELSE LET m == CHOOSE x \in S : \A y \in S \ {x} : VarRefLt(x, y) IN <<m>> \o SortVarRefs(S \ {m})

RECURSIVE SortNames(_)

SortNames(S) == IF S = {} THEN <<>> ELSE LET m == CHOOSE x \in S : \A y \in S : NameRank(x) <= NameRank(y) IN <<m>> \o SortNames(S \ {m})

-----------------------------------------------------------------------------
(* Output names (plan::field)                                              *)

RECURSIVE JoinNames(_)

JoinNames(ns) == IF ns = <<>> THEN "" ELSE IF Len(ns) = 1 THEN ns[1] ELSE ns[1] \o "_" \o JoinNames(Tail(ns))

RECURSIVE BinaryNames(_)

BinaryNames(e) == CASE e.kind \in {"VarRef", "Call"} -> <<e.name>> [] e.kind = "Binary" -> BinaryNames(e.args[1]) \o BinaryNames(e.args[2]) [] e.kind = "Nested" -> BinaryNames(e.args[1]) [] OTHER -> <<>>

RECURSIVE ExprName(_)

ExprName(e) == CASE e.kind \in {"VarRef", "Call"} -> e.name [] e.kind = "Nested" -> ExprName(e.args[1]) [] e.kind = "Binary" -> JoinNames(BinaryNames(e)) [] e.kind = "Distinct" -> "distinct" [] OTHER -> ""

field_name(f) == IF IsSome(f.alias) THEN f.alias[1] ELSE ExprName(f.expr)

field_by_name(fields, n) == IF \E i \in DOMAIN fields : field_name(fields[i]) = n THEN Some(fields[CHOOSE i \in DOMAIN fields : field_name(fields[i]) = n /\ \A j \in 1..(i - 1) : field_name(fields[j]) # n]) ELSE None

-----------------------------------------------------------------------------
(* The type evaluator (plan::expr_type_evaluator)                          *)

MinType(a, b) == IF a = None THEN b ELSE IF b = None THEN a ELSE IF TypeLt(b[1], a[1]) THEN b ELSE a

(* the type a table gives a column name                                    *)
map_type(t, n) == IF n = "time" THEN Some("Timestamp") ELSE IF IsFieldColumn(t, n) THEN Some(TableFields(t)[n]) ELSE IF IsTagColumn(t, n) THEN Some("Tag") ELSE None

RECURSIVE eval_type(_, _)

RECURSIVE eval_var_ref_from(_, _, _)

SubqueryFieldType(f, q) == IF IsSome(f) THEN eval_type(f[1].expr, q.from) ELSE None

(* the type one data source gives the name of v                            *)
SourceType(v, ds) ==
    IF ds.kind = "Table" THEN map_type(ds.name, v.name)
    ELSE SubqueryFieldType(field_by_name(ds.q[1].fields, v.name), ds.q[1])

eval_var_ref_from(v, from, acc) ==
    IF from = <<>> THEN acc ELSE eval_var_ref_from(v, Tail(from), MinType(acc, SourceType(v, Head(from))))

eval_var_ref(v, from) == IF IsSome(v.dt) THEN v.dt ELSE eval_var_ref_from(v, from, None)

eval_call(c, from) ==
    CASE c.name = "count" -> Some("Integer")
      [] c.name \in {"mean", "median", "stddev", "spread"} -> Some("Float")
      [] OTHER -> IF c.args = <<>> THEN None ELSE eval_type(c.args[1], from)

eval_type(e, from) == CASE e.kind = "VarRef" -> eval_var_ref(e, from) [] e.kind = "Call" -> eval_call(e, from) [] e.kind = "Binary" -> MinType(eval_type(e.args[1], from), eval_type(e.args[2], from)) [] e.kind = "Nested" -> eval_type(e.args[1], from) [] e.kind = "Literal" /\ e.name \in {"Integer", "Float", "String"} -> Some(e.name) [] OTHER -> None

-----------------------------------------------------------------------------
(* rewriter.rs: mapping a SelectStatement to a Select                      *)

(* the ? operator: the error of r, or the continuation K on its value      *)
Try(r, K(_)) == IF r.ok THEN K(r.val) ELSE r

MapSeq(s, G(_)) == [i \in DOMAIN s |-> G(s[i])]

(* check_features that looks at the series limit alone                     *)
check_features_limit_only(q) ==
    IF IsSome(q.series_limit)
    THEN Err("NotImplemented", "SLIMIT or SOFFSET")
    ELSE Ok(<<>>)

check_features(q) ==
    IF IsSome(q.series_limit) \/ IsSome(q.series_offset)
    THEN Err("NotImplemented", "SLIMIT or SOFFSET")
    ELSE Ok(<<>>)

(* FieldTypeMap: a function from names to types, merged by the smaller type *)

(* the merge in which the type met last replaces the one recorded          *)
MapMergeOverwrite(m, k, v) == [x \in DOMAIN m \cup {k} |-> IF x = k THEN v ELSE m[x]]

MapMerge(m, k, v) ==
    [x \in DOMAIN m \cup {k} |-> IF x = k THEN (IF k \in DOMAIN m /\ ~TypeLt(v, m[k]) THEN m[k] ELSE v) ELSE m[x]]

EmptyMap == [x \in {} |-> "Float"]

(* plan::field_mapper::field_and_dimensions                                *)
field_and_dimensions(t) ==
    IF table_exists(t) THEN Some([fs |-> TableFields(t), ts |-> TableTags(t)]) ELSE None

RECURSIVE MergeTable(_, _, _)

MergeTable(fs, tf, names) ==
    IF names = {} THEN fs
    ELSE MergeTable(MapMerge(fs, CHOOSE x \in names : TRUE, tf[CHOOSE x \in names : TRUE]), tf, names \ {CHOOSE x \in names : TRUE})

MergeField(fs, name, dt) == IF dt = None THEN fs ELSE MapMerge(fs, name, dt[1])

RECURSIVE MergeSubquery(_, _, _)

MergeSubquery(fs, q, i) ==
    IF i > Len(q.fields) THEN fs
    ELSE MergeSubquery(MergeField(fs, field_name(q.fields[i]), eval_type(q.fields[i].expr, q.from)), q, i + 1)

GroupByTags(gb) ==
    IF gb = None THEN {} ELSE {gb[1][i].name : i \in {j \in DOMAIN gb[1] : gb[1][j].kind = "Tag"}}

MergeSource(acc, tr) ==
    IF tr.kind = "Table"
    THEN IF field_and_dimensions(tr.name) = None THEN acc
         ELSE [fs |-> MergeTable(acc.fs, TableFields(tr.name), DOMAIN TableFields(tr.name)), ts |-> acc.ts \cup TableTags(tr.name)]
    ELSE [fs |-> MergeSubquery(acc.fs, tr.q[1], 1), ts |-> acc.ts \cup GroupByTags(tr.q[1].group_by)]

RECURSIVE from_field_and_dimensions_acc(_, _)

from_field_and_dimensions_acc(from, acc) ==
    IF from = <<>> THEN acc ELSE from_field_and_dimensions_acc(Tail(from), MergeSource(acc, Head(from)))

from_field_and_dimensions(from) == from_field_and_dimensions_acc(from, [fs |-> EmptyMap, ts |-> {}])

(* has_wildcards: (projection has a wildcard or regex, GROUP BY has one)   *)
has_wildcards(q) ==
    << \E i \in DOMAIN q.fields : ContainsWildcardOrRegex(q.fields[i].expr),
       q.group_by # None /\ \E i \in DOMAIN q.group_by[1] : q.group_by[1][i].kind \in {"Wildcard", "Regex"} >>

RECURSIVE RewriteDistinct(_)

RewriteDistinct(e) ==
    IF e.kind = "Distinct" THEN Call("distinct", <<VarRef(e.name, None)>>)
    ELSE [e EXCEPT !.args = [i \in DOMAIN e.args |-> RewriteDistinct(e.args[i])]]

RECURSIVE AnnotateTypes(_, _)

AnnotateTypes(e, from) ==
    IF IsVarRef(e) THEN [e EXCEPT !.dt = eval_var_ref(e, from)]
    ELSE [e EXCEPT !.args = [i \in DOMAIN e.args |-> AnnotateTypes(e.args[i], from)]]

RECURSIVE InnermostCall(_)

(* descend through first arguments until the first argument is no call     *)
InnermostCall(c) == IF c.args # <<>> /\ IsCall(c.args[1]) THEN InnermostCall(c.args[1]) ELSE c

(* the field types of a call argument with String admitted for every call  *)
supported_types_string(name) ==
    CASE name \in {"count", "first", "last", "distinct", "elapsed", "mode", "sample"} -> {"Float", "Integer", "Unsigned", "String", "Boolean"}
      [] name \in {"min", "max"} -> {"Float", "Integer", "Unsigned", "Boolean", "String"}
      [] name \in {"holt_winters", "holt_winters_with_fit"} -> {"Float", "Integer", "String"}
      [] OTHER -> {"Float", "Integer", "Unsigned", "String"}

supported_types(name) ==
    CASE name \in {"count", "first", "last", "distinct", "elapsed", "mode", "sample"} -> {"Float", "Integer", "Unsigned", "String", "Boolean"}
      [] name \in {"min", "max"} -> {"Float", "Integer", "Unsigned", "Boolean"}
      [] name \in {"holt_winters", "holt_winters_with_fit"} -> {"Float", "Integer"}
      [] OTHER -> {"Float", "Integer", "Unsigned"}

(* the expansion sequence with the fields sorted first and the tags sorted *)
(* after them                                                              *)
ExpansionFieldsTagsLast(fs, ts, has_group_by_wildcard) ==
    IF DOMAIN fs = {} THEN <<>>
    ELSE SortVarRefs({VarRef(n, Some(fs[n])) : n \in DOMAIN fs})
         \o (IF has_group_by_wildcard THEN <<>> ELSE SortVarRefs({VarRef(t, Some("Tag")) : t \in ts}))

(* the expansion sequence: the merged fields chained with the tags, unless *)
(* GROUP BY has a wildcard, and sorted as one sequence, so that a column   *)
(* in both is listed twice; empty when the sources have no field at all    *)
ExpansionFields(fs, ts, has_group_by_wildcard) ==
    LET fields_iter == {VarRef(n, Some(fs[n])) : n \in DOMAIN fs}
        tags == IF has_group_by_wildcard THEN {} ELSE {VarRef(t, Some("Tag")) : t \in ts}
        sorted == SortVarRefs(fields_iter \cup tags)
    IN  IF DOMAIN fs = {} THEN <<>>
        ELSE SeqConcat([i \in DOMAIN sorted |-> IF sorted[i] \in fields_iter \cap tags THEN <<sorted[i], sorted[i]>> ELSE <<sorted[i]>>])

WildcardFilter(wct, v) ==
    IF wct = None THEN TRUE ELSE IF wct = Some("Tag") THEN is_tag_type(v.dt[1]) ELSE is_field_type(v.dt[1])

(* a top-level wildcard or regex: the matching entries, without alias      *)
ExpandWildcard(e, fields) ==
    Ok(MapSeq(SelectSeq(fields, LAMBDA v : WildcardFilter(e.dt, v)), LAMBDA v : Field(v, None)))

ExpandRegex(e, fields) ==
    Try(parse_regex(e.str), LAMBDA re : Ok(MapSeq(SelectSeq(fields, LAMBDA v : is_match(re, v.name)), LAMBDA v : Field(v, None))))

(* the field add_field pushes for column v of the call c found in field f  *)
CallField(f, c, v) == Field(Call(c.name, [c.args EXCEPT ![1] = v]), Some(field_name(f) \o "_" \o v.name))

(* a call: c is the innermost call of the chain of first arguments         *)
ExpandCall(f, c, fields) ==
    IF c.args = <<>> THEN Ok(<<f>>)
    ELSE IF IsWildcard(c.args[1]) /\ c.args[1].dt = Some("Tag")
    THEN Err("Plan", "unable to use tag as wildcard in " \o c.name \o "()")
    ELSE IF IsWildcard(c.args[1])
    THEN Ok(MapSeq(SelectSeq(fields, LAMBDA v : v.dt[1] \in supported_types(c.name)), LAMBDA v : CallField(f, c, v)))
    ELSE IF IsRegexLiteral(c.args[1])
    THEN Try(parse_regex(c.args[1].str),
             LAMBDA re : Ok(MapSeq(SelectSeq(fields, LAMBDA v : v.dt[1] \in supported_types(c.name) /\ is_match(re, v.name)),
                                   LAMBDA v : CallField(f, c, v))))
    ELSE Ok(<<f>>)

(* one entry of the projection list: Ok(the fields it expands to) or Err   *)
ExpandField(f, fields) ==
    CASE IsWildcard(f.expr) -> ExpandWildcard(f.expr, fields)
      [] IsRegexLiteral(f.expr) -> ExpandRegex(f.expr, fields)
      [] IsCall(f.expr) -> ExpandCall(f, InnermostCall(f.expr), fields)
      [] f.expr.kind = "Binary" ->
            IF ContainsWildcardOrRegex(f.expr)
            THEN Err("Plan", "unsupported expression: contains a wildcard or regular expression")
            ELSE Ok(<<f>>)
      [] OTHER -> Ok(<<f>>)

RECURSIVE ExpandFields(_, _)

(* the loop over sel.fields: the first error ends it                       *)
ExpandFields(fs, fields) ==
    IF fs = <<>> THEN Ok(<<>>)
    ELSE Try(ExpandField(Head(fs), fields), LAMBDA h : Try(ExpandFields(Tail(fs), fields), LAMBDA t : Ok(h \o t)))

ExpandDimension(dim, group_by_tags) ==
    CASE dim.kind = "Wildcard" -> Ok(MapSeq(group_by_tags, DimTag))
      [] dim.kind = "Regex" ->
            Try(parse_regex(dim.name), LAMBDA re : Ok(MapSeq(SelectSeq(group_by_tags, LAMBDA t : is_match(re, t)), DimTag)))
      [] OTHER -> Ok(<<dim>>)

RECURSIVE ExpandDimensions(_, _)

ExpandDimensions(dims, group_by_tags) ==
    IF dims = <<>> THEN Ok(<<>>)
    ELSE Try(ExpandDimension(Head(dims), group_by_tags), LAMBDA h : Try(ExpandDimensions(Tail(dims), group_by_tags), LAMBDA t : Ok(h \o t)))

(* the rewrite of GROUP BY, done when it has a wildcard or regex           *)
ExpandGroupBy(group_by, tag_set, has_group_by_wildcard) ==
    IF has_group_by_wildcard /\ group_by # None
    THEN Try(ExpandDimensions(group_by[1], SortNames(tag_set)), LAMBDA nd : Ok(Some(nd)))
    ELSE Ok(group_by)

(* the tags left for the projection wildcard                               *)
RemainingTags(ts, group_by, has_group_by_wildcard) ==
    IF ~has_group_by_wildcard THEN ts \ GroupByTags(group_by) ELSE ts

(* the part of field_list_expand_wildcards after has_wildcards: typed are  *)
(* the fields with their types, hw the two flags, fd the merged sources    *)
ExpandWith(q, typed, hw, tag_set, fields) ==
    Try(IF hw[1] THEN ExpandFields(typed, fields) ELSE Ok(typed),
        LAMBDA nf : Try(ExpandGroupBy(q.group_by, tag_set, hw[2]), LAMBDA gb : Ok([fields |-> nf, group_by |-> gb])))

ExpandOver(q, typed, hw, fs, tag_set) == ExpandWith(q, typed, hw, tag_set, ExpansionFields(fs, tag_set, hw[2]))

ExpandFrom(q, typed, hw, fd) == ExpandOver(q, typed, hw, fd.fs, RemainingTags(fd.ts, q.group_by, hw[2]))

TypedFields(q, from) ==
    [i \in DOMAIN q.fields |-> Field(AnnotateTypes(RewriteDistinct(q.fields[i].expr), from), q.fields[i].alias)]

ExpandTyped(q, from, typed, hw) ==
    IF hw = <<FALSE, FALSE>> THEN Ok([fields |-> typed, group_by |-> q.group_by])
    ELSE ExpandFrom(q, typed, hw, from_field_and_dimensions(from))

(* Ok([fields, group_by]) of the select, or the first error                *)
field_list_expand_wildcards(q, from) == ExpandTyped(q, from, TypedFields(q, from), has_wildcards(q))

RECURSIVE map_select(_)

TablesMatching(re) == MapSeq(SelectSeq(TableNames, LAMBDA t : is_match(re, t)), Table)

(* the data sources one measurement of FROM resolves to                    *)
ExpandMeasurement(m) ==
    CASE m.kind = "Name" -> Ok(IF table_exists(m.name) THEN <<Table(m.name)>> ELSE <<>>)
      [] m.kind = "Regex" -> Try(parse_regex(m.name), LAMBDA re : Ok(TablesMatching(re)))
      [] OTHER -> Try(map_select(m.q[1]), LAMBDA sub : Ok(<<Subquery(sub)>>))

RECURSIVE from_expand_wildcards(_)

(* Ok(the data sources of the measurement list ms), or the first error     *)
from_expand_wildcards(ms) ==
    IF ms = <<>> THEN Ok(<<>>)
    ELSE Try(ExpandMeasurement(Head(ms)), LAMBDA h : Try(from_expand_wildcards(Tail(ms)), LAMBDA t : Ok(h \o t)))

map_select(q) ==
    Try(check_features(q),
        LAMBDA u : Try(from_expand_wildcards(q.from),
                       LAMBDA from : Try(field_list_expand_wildcards(q, from),
                                         LAMBDA fl : Ok(Select(fl.fields, from, fl.group_by, q.fill)))))

-----------------------------------------------------------------------------
(* rewriter.rs: the passes of rewrite_statement over the mapped Select     *)

FieldsNames(fields) == UNION {VarRefNames(fields[i].expr) : i \in DOMAIN fields}

RECURSIVE from_drop_empty_after_time(_)

(* from_drop_empty run on subqueries that already carry the time column    *)
(* normalization gives them                                                *)
from_drop_empty_after_time(q) ==
    LET timed(sub) == IF \E j \in DOMAIN sub.fields : field_name(sub.fields[j]) = "time" THEN sub
                      ELSE [sub EXCEPT !.fields = <<Field(VarRef("time", Some("Timestamp")), Some("time"))>> \o @]
        pruned == [i \in DOMAIN q.from |->
                      IF q.from[i].kind = "Subquery" THEN Subquery(timed(from_drop_empty_after_time(q.from[i].q[1]))) ELSE q.from[i]]
        retain(tr) == IF tr.kind = "Table"
                      THEN table_exists(tr.name) /\ \E n \in FieldsNames(q.fields) : IsFieldColumn(tr.name, n)
                      ELSE tr.q[1].from # <<>> /\ \E n \in FieldsNames(q.fields) : IsSome(field_by_name(tr.q[1].fields, n))
    IN  [q EXCEPT !.from = SelectSeqIdx(pruned, {i \in DOMAIN pruned : retain(pruned[i])}, 1)]

RECURSIVE from_drop_empty(_)

(* from_drop_empty that also keeps a table matched through a tag column    *)
RetainSourceByTag(q, tr) ==
    IF tr.kind = "Table"
    THEN table_exists(tr.name) /\ \E n \in FieldsNames(q.fields) : IsFieldColumn(tr.name, n) \/ IsTagColumn(tr.name, n)
    ELSE tr.q[1].from # <<>> /\ \E n \in FieldsNames(q.fields) : IsSome(field_by_name(tr.q[1].fields, n))

(* from_drop_empty that keeps a subquery whatever its parent projects      *)
RetainSourceAnySubquery(q, tr) ==
    IF tr.kind = "Table"
    THEN table_exists(tr.name) /\ \E n \in FieldsNames(q.fields) : IsFieldColumn(tr.name, n)
    ELSE tr.q[1].from # <<>>

(* whether from_drop_empty retains the data source tr of select q; a       *)
(* subquery is given already pruned                                        *)
RetainSource(q, tr) ==
    IF tr.kind = "Table"
    THEN table_exists(tr.name) /\ \E n \in FieldsNames(q.fields) : IsFieldColumn(tr.name, n)
    ELSE tr.q[1].from # <<>> /\ \E n \in FieldsNames(q.fields) : IsSome(field_by_name(tr.q[1].fields, n))

PruneSource(tr) == IF tr.kind = "Subquery" THEN Subquery(from_drop_empty(tr.q[1])) ELSE tr

from_drop_empty(q) ==
    LET pruned == [i \in DOMAIN q.from |-> PruneSource(q.from[i])]
    IN  [q EXCEPT !.from = SelectSeqIdx(pruned, {i \in DOMAIN pruned : RetainSource(q, pruned[i])}, 1)]

IsTimeVarRef(e) == IsVarRef(e) /\ e.name = "time"

(* find_position that never finds the time column                          *)
TimePositionNone(fields) == 0

(* find_position of the first top-level VarRef named time; 0 when none     *)
TimePosition(fields) ==
    IF \E i \in DOMAIN fields : IsTimeVarRef(fields[i].expr)
    THEN CHOOSE i \in DOMAIN fields : IsTimeVarRef(fields[i].expr) /\ \A j \in 1..(i - 1) : ~IsTimeVarRef(fields[j].expr)
    ELSE 0

(* normalize_time that ignores the alias of time in the outer query too    *)
normalize_time_alias_ignored(q, is_subquery) ==
    LET pos == TimePosition(q.fields)
        moved == IF pos = 1 THEN q.fields
                 ELSE IF pos > 1 THEN <<q.fields[pos]>> \o RemoveAt(q.fields, pos)
                 ELSE <<Field(VarRef("time", None), None)>> \o q.fields
    IN  [q EXCEPT !.fields = <<Field(VarRef("time", Some("Timestamp")), Some("time"))>> \o Tail(moved)]

(* normalize_time that keeps the alias written on time in a subquery too   *)
normalize_time_alias_kept(q, is_subquery) ==
    LET pos == TimePosition(q.fields)
        moved == IF pos = 1 THEN q.fields
                 ELSE IF pos > 1 THEN <<q.fields[pos]>> \o RemoveAt(q.fields, pos)
                 ELSE <<Field(VarRef("time", None), None)>> \o q.fields
        f == moved[1]
        aliased == IF f.alias = None THEN [f EXCEPT !.alias = Some("time")] ELSE f
        typed == IF IsVarRef(aliased.expr) THEN [aliased EXCEPT !.expr.dt = Some("Timestamp")] ELSE aliased
    IN  [q EXCEPT !.fields = <<typed>> \o Tail(moved)]

normalize_time(q, is_subquery) ==
    LET pos == TimePosition(q.fields)
        moved == IF pos = 1 THEN q.fields
                 ELSE IF pos > 1 THEN <<q.fields[pos]>> \o RemoveAt(q.fields, pos)
                 ELSE <<Field(VarRef("time", None), None)>> \o q.fields
        f == moved[1]
        aliased == IF f.alias = None \/ is_subquery THEN [f EXCEPT !.alias = Some("time")] ELSE f
        typed == IF IsVarRef(aliased.expr) THEN [aliased EXCEPT !.expr.dt = Some("Timestamp")] ELSE aliased
    IN  [q EXCEPT !.fields = <<typed>> \o Tail(moved)]

NormalizeSource(tr) == IF tr.kind = "Subquery" THEN Subquery(normalize_time(tr.q[1], TRUE)) ELSE tr

field_list_normalize_time(q) ==
    LET outer == normalize_time(q, FALSE)
    IN  [outer EXCEPT !.from = [i \in DOMAIN outer.from |-> NormalizeSource(outer.from[i])]]

RECURSIVE ResolveName(_, _, _)

(* the loop cut to its first candidate, taken or not                       *)
ResolveNameOnce(name, count, column_aliases) == [alias |-> name \o "_" \o ToString(count), count |-> count]

(* the loop that looks for a free "<name>_<count>"                          *)
ResolveName(name, count, column_aliases) ==
    LET resolved_name == name \o "_" \o ToString(count)
    IN  IF resolved_name \in DOMAIN column_aliases
        THEN ResolveName(name, count + 1, column_aliases)
        ELSE [alias |-> resolved_name, count |-> count]

RECURSIVE RewriteAliasesFrom(_, _, _)

RewriteAliasesFrom(field_list, i, column_aliases) ==
    IF i > Len(field_list) THEN field_list
    ELSE LET name == field_name(field_list[i])
         IN  IF column_aliases[name] = 0
             THEN RewriteAliasesFrom([field_list EXCEPT ![i].alias = Some(name)], i + 1, [column_aliases EXCEPT ![name] = 1])
             ELSE LET r == ResolveName(name, column_aliases[name], column_aliases)
                  IN  RewriteAliasesFrom([field_list EXCEPT ![i].alias = Some(r.alias)], i + 1, [column_aliases EXCEPT ![name] = r.count + 1])

(* the counters all starting at 1, so that the first field of a name is    *)
(* numbered like the later ones                                            *)
field_list_rewrite_aliases_numbered(field_list) ==
    LET names == {field_name(field_list[i]) : i \in DOMAIN field_list}
    IN  RewriteAliasesFrom(field_list, 1, [n \in names |-> 1])

field_list_rewrite_aliases(field_list) ==
    LET names == {field_name(field_list[i]) : i \in DOMAIN field_list}
    IN  RewriteAliasesFrom(field_list, 1, [n \in names |-> 0])

RECURSIVE ScanSources(_, _, _)

(* the for loop over one FROM list: the first table name seen so far, the  *)
(* subquery FROM lists pushed, and whether a different table name was met  *)
ScanSources(from, table_name, pushed) ==
    IF from = <<>> THEN [found |-> FALSE, table_name |-> table_name, pushed |-> pushed]
    ELSE LET ds == Head(from)
         IN  IF ds.kind = "Table"
             THEN IF table_name = None THEN ScanSources(Tail(from), Some(ds.name), pushed)
                  ELSE IF ds.name # table_name[1] THEN [found |-> TRUE, table_name |-> table_name, pushed |-> pushed]
                  ELSE ScanSources(Tail(from), table_name, pushed)
             ELSE ScanSources(Tail(from), table_name, Append(pushed, ds.q[1].from))

RECURSIVE PopSources(_, _)

(* the while loop over the stack data_sources                              *)
PopSources(data_sources, table_name) ==
    IF data_sources = <<>> THEN FALSE
    ELSE LET r == ScanSources(data_sources[Len(data_sources)], table_name, SubSeq(data_sources, 1, Len(data_sources) - 1))
         IN  r.found \/ PopSources(r.pushed, r.table_name)

(* has_multiple_measurements that does not descend into subqueries         *)
has_multiple_measurements_outer(q) == ScanSources(q.from, None, <<>>).found

has_multiple_measurements(q) == PopSources(<<q.from>>, None)

-----------------------------------------------------------------------------
(* rewriter.rs: FieldChecker.  A check returns the checker as the call     *)
(* left it, with the error when it failed.                                 *)

FieldChecker(gbt) ==
    [has_group_by_time |-> gbt, inherited_group_by_time |-> FALSE, has_top_bottom |-> FALSE,
     has_non_aggregate_fields |-> FALSE, has_distinct |-> FALSE, aggregate_count |-> 0, selector_count |-> 0]

Pass(c) == [ok |-> TRUE, err |-> NoError, fc |-> c]

Fail(c, cat, m) == [ok |-> FALSE, err |-> [category |-> cat, msg |-> m], fc |-> c]

(* the ? operator over checks                                              *)
Then(r, K(_)) == IF r.ok THEN K(r.fc) ELSE r

function_count(c) == c.aggregate_count + c.selector_count

inc_aggregate_count(c) == [c EXCEPT !.aggregate_count = @ + 1]

inc_selector_count(c) == [c EXCEPT !.selector_count = @ + 1]

(* functions::is_scalar_math_function                                      *)
is_scalar_math_function(name) ==
    name \in {"abs", "sin", "cos", "tan", "asin", "acos", "atan", "atan2", "exp", "log", "ln", "log2", "log10", "sqrt", "pow", "floor", "ceil", "round"}


(* check_exp_args!(name, exp, args)                                        *)
ArgsExact(c, name, exp, args) ==
    IF Len(args) # exp
    THEN Fail(c, "Plan", "invalid number of arguments for " \o name \o ", expected " \o ToString(exp) \o ", got " \o ToString(Len(args)))
    ELSE Pass(c)

(* check_exp_args!(name, lo, hi, args)                                     *)
ArgsBetween(c, name, lo, hi, args) ==
    IF ~(Len(args) \in lo..hi)
    THEN Fail(c, "Plan", "invalid number of arguments for " \o name \o ", expected at least " \o ToString(lo) \o " but no more than " \o ToString(hi) \o ", got " \o ToString(Len(args)))
    ELSE Pass(c)

IsLitInteger(e) == IsLiteral(e) /\ e.name = "Integer"

IsLitNumber(e) == IsLiteral(e) /\ e.name \in {"Integer", "Float"}

IsLitDuration(e) == IsLiteral(e) /\ e.name = "Duration"

IsLitString(e) == IsLiteral(e) /\ e.name = "String"

(* the {:?} rendering of an expression, in full for integers and untyped   *)
(* variable references, cut to the variant for the rest                    *)
Debug(e) ==
    IF IsLitInteger(e) THEN "Literal(Integer(" \o ToString(e.num) \o "))"
    ELSE IF IsLiteral(e) THEN "Literal(" \o e.name \o ")"
    ELSE IF IsVarRef(e) /\ e.dt = None THEN "VarRef(VarRef { name: Identifier(\"" \o e.name \o "\"), data_type: None })"
    ELSE e.kind

(* lit_integer!(name, args, pos)                                           *)
LitIntegerAt(c, name, args, pos) ==
    IF IsLitInteger(args[pos]) THEN Pass(c) ELSE Fail(c, "Plan", "expected integer argument in " \o name \o "()")

(* lit_string!(name, args, pos)                                            *)
LitStringAt(c, name, args, pos) ==
    IF IsLitString(args[pos]) THEN Pass(c) ELSE Fail(c, "Plan", "expected string argument in " \o name \o "()")

(* the check of an optional duration as second argument                    *)
DurationArg(c, name, args) ==
    IF Len(args) < 2 THEN Pass(c)
    ELSE IF IsLitDuration(args[2]) /\ args[2].num <= 0 THEN Fail(c, "Plan", "duration argument must be positive, got " \o ToString(args[2].num) \o "s")
    ELSE IF IsLitDuration(args[2]) THEN Pass(c)
    ELSE Fail(c, "Plan", "second argument to " \o name \o " must be a duration, got " \o Debug(args[2]))

check_symbol(c, name, expr) ==
    IF IsVarRef(expr) THEN Pass(c)
    ELSE IF IsWildcard(expr) \/ IsRegexLiteral(expr) THEN Fail(c, "Internal", "unexpected wildcard or regex")
    ELSE Fail(c, "Plan", "expected field argument in " \o name \o "(), got " \o Debug(expr))

DistinctArg(c, args, nested) ==
    IF ~IsVarRef(args[1]) THEN Fail(c, "Plan", "expected field argument in distinct()")
    ELSE Pass(IF ~nested THEN [c EXCEPT !.has_distinct = TRUE] ELSE c)

check_distinct(c, args, nested) ==
    Then(ArgsExact(inc_aggregate_count(c), "distinct", 1, args), LAMBDA d : DistinctArg(d, args, nested))

PercentileArgs(c, args) ==
    IF ~IsLitNumber(args[2]) THEN Fail(c, "Plan", "expected number for percentile(), got " \o Debug(args[2]))
    ELSE check_symbol(c, "percentile", args[1])

check_percentile(c, args) ==
    Then(ArgsExact(inc_selector_count(c), "percentile", 2, args), LAMBDA d : PercentileArgs(d, args))

SampleWindow(c, args) ==
    IF args[2].num <= 1 THEN Fail(c, "Plan", "sample window must be greater than 1, got " \o ToString(args[2].num))
    ELSE check_symbol(c, "sample", args[1])

check_sample(c, args) ==
    Then(ArgsExact(inc_selector_count(c), "sample", 2, args),
         LAMBDA d : Then(LitIntegerAt(d, "sample", args, 2), LAMBDA g : SampleWindow(g, args)))

(* the arguments of top/bottom between the first and the last               *)
TopBottomRest(args) == SubSeq(args, 2, Len(args) - 1)

TopBottomArgs(c, name, args) ==
    IF ~IsLitInteger(args[Len(args)]) THEN Fail(c, "Plan", "expected integer as last argument for " \o name \o ", got " \o Debug(args[Len(args)]))
    ELSE IF args[Len(args)].num <= 0 THEN Fail(c, "Plan", "limit (" \o ToString(args[Len(args)].num) \o ") for " \o name \o " must be greater than 0")
    ELSE IF ~IsVarRef(args[1]) THEN Fail(c, "Plan", "expected first argument to be a field for " \o name)
    ELSE IF \E i \in DOMAIN TopBottomRest(args) : ~IsVarRef(TopBottomRest(args)[i])
    THEN Fail(c, "Plan", "only fields or tags are allow for " \o name \o "(), got " \o Debug(TopBottomRest(args)[CHOOSE i \in DOMAIN TopBottomRest(args) : ~IsVarRef(TopBottomRest(args)[i]) /\ \A j \in 1..(i - 1) : IsVarRef(TopBottomRest(args)[j])]))
    ELSE Pass(IF TopBottomRest(args) # <<>> THEN [c EXCEPT !.has_non_aggregate_fields = TRUE] ELSE c)

TopBottomCounted(c, name, args) ==
    IF Len(args) < 2
    THEN Fail(c, "Plan", "invalid number of arguments for " \o name \o ", expected at least 2, got " \o ToString(Len(args)))
    ELSE TopBottomArgs(c, name, args)

check_top_bottom(c, name, args) == TopBottomCounted([inc_selector_count(c) EXCEPT !.has_top_bottom = TRUE], name, args)

RECURSIVE check_expr(_, _)

check_nested_expr(c, expr) ==
    IF IsCall(expr) /\ expr.name = "distinct" THEN check_distinct(c, expr.args, TRUE) ELSE check_expr(c, expr)

(* the nested-symbol rule without its two GROUP BY time conditions          *)
check_nested_symbol_any_group_by(c, name, expr) ==
    IF IsCall(expr) THEN check_nested_expr(c, expr) ELSE check_symbol(c, name, expr)

check_nested_symbol(c, name, expr) ==
    IF IsCall(expr) /\ ~c.has_group_by_time THEN Fail(c, "Plan", name \o " aggregate requires a GROUP BY interval")
    ELSE IF IsCall(expr) THEN check_nested_expr(c, expr)
    ELSE IF c.has_group_by_time /\ ~c.inherited_group_by_time THEN Fail(c, "Plan", "aggregate function required inside the call to " \o name)
    ELSE check_symbol(c, name, expr)

check_derivative(c, name, args) ==
    Then(ArgsBetween(inc_aggregate_count(c), name, 1, 2, args),
         LAMBDA d : Then(DurationArg(d, name, args), LAMBDA g : check_nested_symbol(g, name, args[1])))

check_elapsed(c, name, args) ==
    Then(ArgsBetween(inc_aggregate_count(c), name, 1, 2, args),
         LAMBDA d : Then(DurationArg(d, name, args), LAMBDA g : check_nested_symbol(g, name, args[1])))

check_difference(c, name, args) ==
    Then(ArgsExact(inc_aggregate_count(c), name, 1, args), LAMBDA d : check_nested_symbol(d, name, args[1]))

check_cumulative_sum(c, args) ==
    Then(ArgsExact(inc_aggregate_count(c), "cumulative_sum", 1, args), LAMBDA d : check_nested_symbol(d, "cumulative_sum", args[1]))

MovingAverageWindow(c, args) ==
    IF args[2].num <= 1 THEN Fail(c, "Plan", "moving_average window must be greater than 1, got " \o ToString(args[2].num))
    ELSE check_nested_symbol(c, "moving_average", args[1])

check_moving_average(c, args) ==
    Then(ArgsExact(inc_aggregate_count(c), "moving_average", 2, args),
         LAMBDA d : Then(LitIntegerAt(d, "moving_average", args, 2), LAMBDA g : MovingAverageWindow(g, args)))

(* the period, args[1] in the source: an integer literal that is >= 1      *)
PeriodArg(c, name, args) ==
    Then(LitIntegerAt(c, name, args, 2),
         LAMBDA d : IF args[2].num < 1 THEN Fail(d, "Plan", name \o " period must be greater than 1, got " \o ToString(args[2].num)) ELSE Pass(d))

(* the optional hold period, args[2] in the source; least is its minimum   *)
HoldPeriodArg(c, name, args, least) ==
    IF Len(args) < 3 THEN Pass(c)
    ELSE Then(LitIntegerAt(c, name, args, 3),
              LAMBDA d : IF args[3].num < least /\ args[3].num # -1
                         THEN Fail(d, "Plan", name \o " hold period must be greater than or equal to " \o ToString(least))
                         ELSE Pass(d))

(* the optional warmup type, args[3] in the source                         *)
WarmupArg(c, name, args, allowed, listed) ==
    IF Len(args) < 4 THEN Pass(c)
    ELSE Then(LitStringAt(c, name, args, 4),
              LAMBDA d : IF args[4].str \in allowed THEN Pass(d)
                         ELSE Fail(d, "Plan", name \o " warmup type must be one of: " \o listed \o ", got " \o args[4].str))

check_exponential_moving_average(c, name, args) ==
    Then(ArgsBetween(inc_aggregate_count(c), name, 2, 4, args),
         LAMBDA d : Then(PeriodArg(d, name, args),
         LAMBDA g : Then(HoldPeriodArg(g, name, args, IF name = "triple_exponential_derivative" THEN 1 ELSE 0),
         LAMBDA h : Then(WarmupArg(h, name, args, {"exponential", "simple"}, "'exponential', 'simple'"),
         LAMBDA k : check_nested_symbol(k, name, args[1])))))

check_kaufmans(c, name, args) ==
    Then(ArgsBetween(inc_aggregate_count(c), name, 2, 3, args),
         LAMBDA d : Then(PeriodArg(d, name, args),
         LAMBDA g : Then(HoldPeriodArg(g, name, args, 0),
         LAMBDA h : check_nested_symbol(h, name, args[1]))))

check_chande_momentum_oscillator(c, name, args) ==
    Then(ArgsBetween(inc_aggregate_count(c), name, 2, 4, args),
         LAMBDA d : Then(PeriodArg(d, name, args),
         LAMBDA g : Then(HoldPeriodArg(g, name, args, 0),
         LAMBDA h : Then(WarmupArg(h, name, args, {"none", "exponential", "simple"}, "'none', 'exponential' or 'simple'"),
         LAMBDA k : check_nested_symbol(k, name, args[1])))))

check_integral(c, name, args) ==
    Then(ArgsBetween(inc_aggregate_count(c), name, 1, 2, args),
         LAMBDA d : Then(DurationArg(d, name, args), LAMBDA g : check_symbol(g, name, args[1])))

check_count_hll(c, args) == Fail(inc_aggregate_count(c), "NotImplemented", "count_hll")

HoltWintersArgs(c, name, args) ==
    IF ~IsLitInteger(args[2]) THEN Fail(c, "Plan", "expected integer argument in " \o name \o "()")
    ELSE IF args[2].num < 1 THEN Fail(c, "Plan", name \o " N argument must be greater than 0, got " \o ToString(args[2].num))
    ELSE IF ~IsLitInteger(args[3]) THEN Fail(c, "Plan", "expected integer argument in " \o name \o "()")
    ELSE IF args[3].num < 0 THEN Fail(c, "Plan", name \o " S argument cannot be negative, got " \o ToString(args[3].num))
    ELSE IF IsCall(args[1]) /\ ~c.has_group_by_time THEN Fail(c, "Plan", name \o " aggregate requires a GROUP BY interval")
    ELSE IF IsCall(args[1]) THEN check_nested_expr(c, args[1])
    ELSE Fail(c, "Plan", "must use aggregate function with " \o name)

check_holt_winters(c, name, args) ==
    Then(ArgsExact(inc_aggregate_count(c), name, 3, args), LAMBDA d : HoltWintersArgs(d, name, args))

(* count, sum, mean, ...: count(distinct(x)) is let through                *)
AggregateArg(c, name, args) ==
    IF name = "count" /\ IsCall(args[1]) /\ args[1].name = "distinct" THEN check_distinct(c, args[1].args, TRUE)
    ELSE IF name = "count" /\ args[1].kind = "Distinct" THEN Fail(c, "Internal", "unexpected distinct clause in count")
    ELSE check_symbol(c, name, args[1])

check_aggregate_function(c, call) ==
    CASE call.name = "percentile" -> check_percentile(c, call.args)
      [] call.name = "sample" -> check_sample(c, call.args)
      [] call.name = "distinct" -> check_distinct(c, call.args, FALSE)
      [] call.name \in {"top", "bottom"} /\ c.has_top_bottom ->
            Fail(c, "Plan", "selector function " \o call.name \o "() cannot be combined with other functions")
      [] call.name \in {"top", "bottom"} /\ ~c.has_top_bottom -> check_top_bottom(c, call.name, call.args)
      [] call.name \in {"derivative", "non_negative_derivative"} -> check_derivative(c, call.name, call.args)
      [] call.name \in {"difference", "non_negative_difference"} -> check_difference(c, call.name, call.args)
      [] call.name = "cumulative_sum" -> check_cumulative_sum(c, call.args)
      [] call.name = "moving_average" -> check_moving_average(c, call.args)
      [] call.name \in {"exponential_moving_average", "double_exponential_moving_average", "triple_exponential_moving_average",
                        "relative_strength_index", "triple_exponential_derivative"} ->
            check_exponential_moving_average(c, call.name, call.args)
      [] call.name \in {"kaufmans_efficiency_ratio", "kaufmans_adaptive_moving_average"} -> check_kaufmans(c, call.name, call.args)
      [] call.name = "chande_momentum_oscillator" -> check_chande_momentum_oscillator(c, call.name, call.args)
      [] call.name = "elapsed" -> check_elapsed(c, call.name, call.args)
      [] call.name = "integral" -> check_integral(c, call.name, call.args)
      [] call.name = "count_hll" -> check_count_hll(c, call.args)
      [] call.name \in {"holt_winters", "holt_winters_with_fit"} -> check_holt_winters(c, call.name, call.args)
      [] call.name \in {"max", "min", "first", "last"} ->
            Then(ArgsExact(inc_selector_count(c), call.name, 1, call.args), LAMBDA d : check_symbol(d, call.name, call.args[1]))
      [] call.name \in {"count", "sum", "mean", "median", "mode", "stddev", "spread", "sum_hll"} ->
            Then(ArgsExact(inc_aggregate_count(c), call.name, 1, call.args), LAMBDA d : AggregateArg(d, call.name, call.args))
      [] OTHER -> Fail(c, "Plan", "unsupported function " \o call.name \o "()")

RECURSIVE CheckMathArgs(_, _)

(* try_for_each over the arguments: literal numbers are skipped            *)
CheckMathArgs(c, args) ==
    IF args = <<>> THEN Pass(c)
    ELSE Then(IF IsLitNumber(Head(args)) THEN Pass(c) ELSE check_expr(c, Head(args)), LAMBDA d : CheckMathArgs(d, Tail(args)))

check_math_function(c, call) ==
    Then(ArgsExact(c, call.name, IF call.name \in {"atan2", "pow", "log"} THEN 2 ELSE 1, call.args),
         LAMBDA d : CheckMathArgs(d, call.args))

check_expr(c, e) ==
    CASE IsVarRef(e) /\ e.name = "time" -> Pass(c)
      [] IsVarRef(e) /\ e.name # "time" -> Pass([c EXCEPT !.has_non_aggregate_fields = TRUE])
      [] IsCall(e) /\ is_scalar_math_function(e.name) -> check_math_function(c, e)
      [] IsCall(e) /\ ~is_scalar_math_function(e.name) -> check_aggregate_function(c, e)
      [] e.kind = "Binary" ->
            IF IsLiteral(e.args[1]) /\ IsLiteral(e.args[2]) THEN Fail(c, "Plan", "cannot perform a binary expression on two literals")
            ELSE IF IsLiteral(e.args[1]) THEN check_expr(c, e.args[2])
            ELSE IF IsLiteral(e.args[2]) THEN check_expr(c, e.args[1])
            ELSE Then(check_expr(c, e.args[1]), LAMBDA d : check_expr(d, e.args[2]))
      [] e.kind = "Nested" -> check_expr(c, e.args[1])
      [] e.kind = "BindParameter" -> Fail(c, "Internal", "unexpected bind parameter")
      [] e.kind = "Wildcard" -> Fail(c, "Internal", "unexpected wildcard")
      [] IsRegexLiteral(e) -> Fail(c, "Internal", "unexpected regex")
      [] e.kind = "Distinct" -> Fail(c, "Internal", "unexpected distinct clause")
      [] OTHER -> Fail(c, "Plan", "field must contain at least one variable")

(* ProjectionType                                                          *)
ProjectionType(k, hf) == [kind |-> k, has_fields |-> hf]

(* check_fields without the rule on top and bottom                         *)
check_fields_rules_without_top(c, q) ==
    IF function_count(c) = 0 /\ IsSome(q.fill) THEN Fail(c, "Plan", q.fill[1] \o " must be used with an aggregate function")
    ELSE IF function_count(c) = 0 /\ c.has_group_by_time /\ ~c.inherited_group_by_time
    THEN Fail(c, "Plan", "GROUP BY requires at least one aggregate function")
    ELSE IF c.has_distinct /\ (function_count(c) # 1 \/ c.has_non_aggregate_fields)
    THEN Fail(c, "Plan", "aggregate function distinct() cannot be combined with other functions or fields")
    ELSE IF c.has_non_aggregate_fields /\ c.aggregate_count > 0
    THEN Fail(c, "Plan", "mixing aggregate and non-aggregate columns is not supported")
    ELSE IF c.has_non_aggregate_fields /\ c.selector_count > 1
    THEN Fail(c, "Plan", "mixing multiple selector functions with tags or fields is not supported")
    ELSE Pass(c)

(* the rules across fields with GROUP BY time looked at before FILL        *)
check_fields_rules_group_by_before_fill(c, q) ==
    IF function_count(c) = 0 /\ c.has_group_by_time /\ ~c.inherited_group_by_time
    THEN Fail(c, "Plan", "GROUP BY requires at least one aggregate function")
    ELSE IF function_count(c) = 0 /\ IsSome(q.fill) THEN Fail(c, "Plan", q.fill[1] \o " must be used with an aggregate function")
    ELSE IF function_count(c) >= 2 /\ c.has_top_bottom
    THEN Fail(c, "Plan", "selector functions top and bottom cannot be combined with other functions")
    ELSE IF c.has_distinct /\ (function_count(c) # 1 \/ c.has_non_aggregate_fields)
    THEN Fail(c, "Plan", "aggregate function distinct() cannot be combined with other functions or fields")
    ELSE IF c.has_non_aggregate_fields /\ c.aggregate_count > 0
    THEN Fail(c, "Plan", "mixing aggregate and non-aggregate columns is not supported")
    ELSE IF c.has_non_aggregate_fields /\ c.selector_count > 1
    THEN Fail(c, "Plan", "mixing multiple selector functions with tags or fields is not supported")
    ELSE Pass(c)

(* the rules across fields with distinct rejected only next to another      *)
(* function, fields and tags beside it being let through                   *)
check_fields_rules_distinct_fields(c, q) ==
    IF function_count(c) = 0 /\ IsSome(q.fill) THEN Fail(c, "Plan", q.fill[1] \o " must be used with an aggregate function")
    ELSE IF function_count(c) = 0 /\ c.has_group_by_time /\ ~c.inherited_group_by_time
    THEN Fail(c, "Plan", "GROUP BY requires at least one aggregate function")
    ELSE IF function_count(c) >= 2 /\ c.has_top_bottom
    THEN Fail(c, "Plan", "selector functions top and bottom cannot be combined with other functions")
    ELSE IF c.has_distinct /\ function_count(c) # 1
    THEN Fail(c, "Plan", "aggregate function distinct() cannot be combined with other functions or fields")
    ELSE IF c.has_non_aggregate_fields /\ c.aggregate_count > 0 /\ ~c.has_distinct
    THEN Fail(c, "Plan", "mixing aggregate and non-aggregate columns is not supported")
    ELSE IF c.has_non_aggregate_fields /\ c.selector_count > 1
    THEN Fail(c, "Plan", "mixing multiple selector functions with tags or fields is not supported")
    ELSE Pass(c)

(* the rules across fields with non-aggregate columns rejected only next   *)
(* to an aggregate, any number of selectors being let through              *)
check_fields_rules_any_selectors(c, q) ==
    IF function_count(c) = 0 /\ IsSome(q.fill) THEN Fail(c, "Plan", q.fill[1] \o " must be used with an aggregate function")
    ELSE IF function_count(c) = 0 /\ c.has_group_by_time /\ ~c.inherited_group_by_time
    THEN Fail(c, "Plan", "GROUP BY requires at least one aggregate function")
    ELSE IF function_count(c) >= 2 /\ c.has_top_bottom
    THEN Fail(c, "Plan", "selector functions top and bottom cannot be combined with other functions")
    ELSE IF c.has_distinct /\ (function_count(c) # 1 \/ c.has_non_aggregate_fields)
    THEN Fail(c, "Plan", "aggregate function distinct() cannot be combined with other functions or fields")
    ELSE IF c.has_non_aggregate_fields /\ c.aggregate_count > 0
    THEN Fail(c, "Plan", "mixing aggregate and non-aggregate columns is not supported")
    ELSE Pass(c)

(* check_fields after the walk over the fields: the rules across fields,   *)
(* then the projection type                                                *)
check_fields_rules(c, q) ==
    IF function_count(c) = 0 /\ IsSome(q.fill) THEN Fail(c, "Plan", q.fill[1] \o " must be used with an aggregate function")
    ELSE IF function_count(c) = 0 /\ c.has_group_by_time /\ ~c.inherited_group_by_time
    THEN Fail(c, "Plan", "GROUP BY requires at least one aggregate function")
    ELSE IF function_count(c) >= 2 /\ c.has_top_bottom
    THEN Fail(c, "Plan", "selector functions top and bottom cannot be combined with other functions")
    ELSE IF c.has_distinct /\ (function_count(c) # 1 \/ c.has_non_aggregate_fields)
    THEN Fail(c, "Plan", "aggregate function distinct() cannot be combined with other functions or fields")
    ELSE IF c.has_non_aggregate_fields /\ c.aggregate_count > 0
    THEN Fail(c, "Plan", "mixing aggregate and non-aggregate columns is not supported")
    ELSE IF c.has_non_aggregate_fields /\ c.selector_count > 1
    THEN Fail(c, "Plan", "mixing multiple selector functions with tags or fields is not supported")
    ELSE Pass(c)

(* the projection type with GROUP BY time looked at before top and bottom  *)
projection_type_group_by_first(c) ==
    IF c.has_group_by_time THEN ProjectionType("Aggregate", FALSE)
    ELSE IF c.has_top_bottom THEN ProjectionType("TopBottomSelector", FALSE)
    ELSE IF c.has_distinct THEN ProjectionType("RawDistinct", FALSE)
    ELSE IF c.selector_count = 1 /\ c.aggregate_count = 0 THEN ProjectionType("Selector", c.has_non_aggregate_fields)
    ELSE IF c.selector_count > 1 \/ c.aggregate_count > 0 THEN ProjectionType("Aggregate", FALSE)
    ELSE ProjectionType("Raw", FALSE)

(* the projection type with Selector for any number of selectors          *)
projection_type_any_selector(c) ==
    IF c.has_top_bottom THEN ProjectionType("TopBottomSelector", FALSE)
    ELSE IF c.has_group_by_time THEN ProjectionType("Aggregate", FALSE)
    ELSE IF c.has_distinct THEN ProjectionType("RawDistinct", FALSE)
    ELSE IF c.selector_count >= 1 /\ c.aggregate_count = 0 THEN ProjectionType("Selector", c.has_non_aggregate_fields)
    ELSE IF c.aggregate_count > 0 THEN ProjectionType("Aggregate", FALSE)
    ELSE ProjectionType("Raw", FALSE)

projection_type(c) ==
    IF c.has_top_bottom THEN ProjectionType("TopBottomSelector", FALSE)
    ELSE IF c.has_group_by_time THEN ProjectionType("Aggregate", FALSE)
    ELSE IF c.has_distinct THEN ProjectionType("RawDistinct", FALSE)
    ELSE IF c.selector_count = 1 /\ c.aggregate_count = 0 THEN ProjectionType("Selector", c.has_non_aggregate_fields)
    ELSE IF c.selector_count > 1 \/ c.aggregate_count > 0 THEN ProjectionType("Aggregate", FALSE)
    ELSE ProjectionType("Raw", FALSE)

(* group_by.and_then(|gb| gb.time_dimension()).is_some()                   *)
HasGroupByTime(q) == q.group_by # None /\ \E i \in DOMAIN q.group_by[1] : q.group_by[1][i].kind = "Time"

-----------------------------------------------------------------------------
(* The statements rewrite_statement is run on                              *)

MaxFields == 3

MaxDepth == 2

V(n) == VarRef(n, None)

F(e) == Field(e, None)

Stmt(fs, from, gb) == SelectStatement(fs, from, gb, None, None, None)

SeqsUpTo(S, n) == UNION {[1..k -> S] : k \in 0..n}

(* repeated names and user aliases, some of them of the generated form     *)
AliasItems ==
    { F(V("usage_user")), Field(V("usage_user"), Some("usage_user_1")), Field(V("usage_user"), Some("usage_user_2")),
      F(V("time")), Field(V("time"), Some("t")), Field(V("usage_user"), Some("time")) }

StmtsAlias == {Stmt(fs, <<MName("cpu")>>, None) : fs \in SeqsUpTo(AliasItems, MaxFields) \ {<<>>}}

(* wildcards and regular expressions at every place of a projection        *)
WildItems ==
    { F(Wildcard(None)), F(Wildcard(Some("Tag"))), F(Wildcard(Some("Field"))), F(LitRegex("^usage")), F(LitRegex("(not")),
      F(Call("count", <<Wildcard(None)>>)), Field(Call("sum", <<LitRegex("^usage")>>), Some("t")), F(Call("count", <<Wildcard(Some("Tag"))>>)),
      F(Call("max", <<Call("abs", <<Wildcard(Some("Field"))>>)>>)),
      F(Call("percentile", <<V("usage_idle"), LitRegex("^usage")>>)), F(Call("top", <<V("usage_idle"), Wildcard(None), LitInteger(2)>>)),
      F(Nested(Wildcard(None))), F(Binary(Wildcard(Some("Field")), "+", Wildcard(Some("Tag")))),
      F(Call("abs", <<Binary(V("usage_idle"), "+", Wildcard(None))>>)),
      F(Binary(V("usage_system"), "+", V("usage_idle"))), F(Distinct("usage_idle")), F(Call("count", <<Distinct("bytes_free")>>)) }

RestItems == {F(V("usage_idle")), F(V("host")), F(Wildcard(None))}

WildGroupBys == {None, Some(<<DimTag("host")>>), Some(<<DimWildcard>>), Some(<<DimTime, DimRegex("host")>>)}

StmtsWild ==
    {Stmt(<<w>> \o rest, from, gb) : w \in WildItems, rest \in SeqsUpTo(RestItems, MaxFields - 2),
                                    from \in {<<MName("cpu")>>, <<MName("disk"), MName("cpu")>>}, gb \in WildGroupBys}
    \cup {Stmt(<<r, w>>, <<MName("cpu")>>, gb) : w \in WildItems, r \in RestItems, gb \in {None, Some(<<DimWildcard>>)}}
    \cup {Stmt(<<F(Wildcard(None))>>, <<MSubquery(Stmt(<<F(V(n)), F(V("usage_idle"))>>, <<MName("cpu")>>, Some(<<DimTag("host")>>)))>>, gb) :
             n \in {"host", "foo"}, gb \in {None, Some(<<DimWildcard>>)}}
    \cup {Stmt(<<F(Wildcard(None))>>, <<MSubquery(Stmt(<<F(V("foo"))>>, <<MName("cpu")>>, Some(<<DimTag("host")>>)))>>, None)}
    \cup {Stmt(<<F(Wildcard(None))>>, <<a, b>>, None) :
             a, b \in {MName("cpu"), MSubquery(Stmt(<<Field(V("host"), Some("usage_idle"))>>, <<MName("cpu")>>, None)),
                       MSubquery(Stmt(<<Field(Call("count", <<V("usage_idle")>>), Some("usage_idle"))>>, <<MName("cpu")>>, None))}}

(* calls over a wildcard or a regular expression, alone and under another  *)
(* call, over measurements with fields of every type                       *)
CallWildcards == {Wildcard(None), Wildcard(Some("Field")), LitRegex("64$")}

CallItems ==
    UNION {{F(Call("count", <<w>>)), F(Call("sum", <<w>>)), F(Call("min", <<w>>)), F(Call("mode", <<w>>)),
            F(Call("holt_winters", <<w, LitInteger(2), LitInteger(3)>>)), Field(Call("max", <<w>>), Some("m")),
            F(Call("sum", <<Call("abs", <<w>>)>>)), F(Call("percentile", <<Call("abs", <<w>>), LitInteger(50)>>)),
            Field(Call("count", <<Call("distinct", <<w>>)>>), Some("n"))} : w \in CallWildcards}

StmtsCall ==
    {Stmt(<<c>>, from, None) : c \in CallItems, from \in {<<MName("temp_01")>>, <<MName("all_types")>>, <<MName("cpu"), MName("all_types")>>}}
    \cup {Stmt(<<F(V("field_str")), c>>, <<MName("all_types")>>, Some(<<DimWildcard>>)) : c \in CallItems}

(* subqueries whose fields share output names, carry aliases or expand     *)
SubFields ==
    { <<F(V("usage_idle")), F(V("usage_idle"))>>, <<Field(V("usage_idle"), Some("a")), Field(V("usage_system"), Some("a"))>>,
      <<F(V("usage_idle")), Field(V("usage_system"), Some("usage_idle"))>>, <<F(Wildcard(None))>>,
      <<F(Call("count", <<Wildcard(None)>>))>>, <<Field(Call("max", <<LitRegex("^usage")>>), Some("m")), F(V("usage_idle"))>>,
      <<Field(V("usage_idle"), Some("a")), Field(V("time"), Some("t")), F(V("usage_user"))>> }

SubSelects == {Stmt(fs, <<MName("cpu")>>, None) : fs \in SubFields}

StmtsSub ==
    {Stmt(fs, from, None) :
        fs \in {<<F(V("usage_idle"))>>, <<F(Wildcard(None))>>, <<F(V("a")), F(V("a"))>>},
        from \in UNION {{<<MSubquery(q)>>, <<MSubquery(Stmt(<<F(V("a")), F(V("usage_idle"))>>, <<MSubquery(q)>>, None)), MName("cpu")>>} : q \in SubSelects}}

(* projections of tags and of time only, over measurements and subqueries  *)
TagSubSelects ==
    {Stmt(fs, <<MName("cpu")>>, None) :
        fs \in {<<F(V("usage_idle"))>>, <<F(V("time")), F(V("usage_idle"))>>, <<F(V("cpu")), F(V("usage_system"))>>,
                <<F(V("cpu"))>>, <<F(Wildcard(Some("Tag")))>>, <<F(Wildcard(None))>>}}
    \cup {Stmt(<<F(V("host"))>>, <<MSubquery(Stmt(<<F(V("host")), F(V("usage_idle"))>>, <<MName("cpu")>>, None))>>, None)}

StmtsTags ==
    {Stmt(fs, from, None) :
        fs \in {<<F(V("time"))>>, <<F(V("host"))>>, <<F(V("cpu")), F(V("time"))>>, <<F(Wildcard(Some("Tag")))>>, <<F(V("time")), F(V("usage_idle"))>>},
        from \in {<<MName("cpu")>>, <<MName("cpu"), MName("disk")>>}
                 \cup UNION {{<<MSubquery(q)>>, <<MName("cpu"), MSubquery(q)>>} : q \in TagSubSelects}}

(* tables, regular expressions and subqueries in FROM, nested to MaxDepth  *)
LeafFields ==
    {<<F(V("usage_idle"))>>, <<F(V("host"))>>, <<F(V("usage_idle")), F(V("bytes_free"))>>, <<F(V("usage_idle")), Field(V("time"), Some("t"))>>}

StmtsLeaf ==
    {Stmt(fs, from, None) : fs \in LeafFields,
                            from \in {<<MName("cpu")>>, <<MName("disk")>>, <<MName("foo")>>, <<MName("cpu"), MName("disk")>>, <<MRegex("^d"), MName("cpu"), MName("cpu")>>}}

NestOver(S) ==
    {Stmt(fs, from, None) : fs \in LeafFields,
                            from \in UNION {{<<MSubquery(q)>>, <<MName("cpu"), MSubquery(q)>>, <<MSubquery(q), MName("disk")>>} : q \in S}}

RECURSIVE StmtsNest(_)

StmtsNest(d) == IF d = 0 THEN StmtsLeaf ELSE NestOver(StmtsNest(d - 1))

(* series limits and offsets, and sources that fail, at every depth        *)
WithLimit(q) == {q, [q EXCEPT !.series_limit = Some(1)], [q EXCEPT !.series_offset = Some(1)]}

(* a count over the tag wildcard FROM cpu, which the expansion of the      *)
(* projection rejects                                                      *)
TagCount == Stmt(<<F(Call("count", <<Wildcard(Some("Tag"))>>))>>, <<MName("cpu")>>, None)

LimitOver(S) ==
    UNION {WithLimit(Stmt(<<F(V("usage_idle"))>>, from, None)) :
             from \in UNION {{<<MSubquery(q)>>, <<MRegex("(not"), MSubquery(q)>>, <<MSubquery(q), MRegex("(not")>>, <<MSubquery(TagCount), MSubquery(q)>>} : q \in S}}

RECURSIVE StmtsLimit(_)

StmtsLimit(d) ==
    IF d = 0 THEN WithLimit(Stmt(<<F(V("usage_idle"))>>, <<MName("cpu")>>, None)) \cup WithLimit(Stmt(<<F(LitRegex("(not"))>>, <<MRegex("(not")>>, None))
    ELSE LimitOver(StmtsLimit(d - 1))

Statements ==
    StmtsAlias \cup StmtsWild \cup StmtsCall \cup StmtsSub \cup StmtsTags \cup UNION {StmtsNest(d) : d \in 0..MaxDepth} \cup UNION {StmtsLimit(d) : d \in 0..MaxDepth}

(* the projections select_statement_info is run on                         *)
U == V("usage_idle")

Fn(n, e) == Call(n, <<e>>)

Fn2(n, e, k) == Call(n, <<e, LitInteger(k)>>)

InfoItems ==
    { U, V("time"), V("host"), LitInteger(1), Wildcard(None), LitRegex("^usage"), Distinct("usage_idle"),
      Fn2("top", U, 2), Call("top", <<U, V("host"), LitInteger(2)>>), Fn2("bottom", U, 2), Fn2("top", U, 0), Fn("top", U),
      Call("top", <<U, LitInteger(1), LitInteger(2)>>), Fn2("top", Fn("max", U), 2),
      Fn("last", U), Fn("max", U), Fn2("percentile", U, 50), Fn2("sample", U, 2), Fn2("sample", U, 1),
      Fn("count", U), Fn("mean", U), Fn("sum", Fn2("top", U, 2)), Fn("count", Fn("distinct", U)), Fn("distinct", U),
      Fn("count", Distinct("usage_idle")), Fn("count_hll", U), Fn("foo", U),
      Fn("abs", Fn("last", U)), Fn("abs", U), Fn("abs", Fn2("top", U, 2)), Fn("abs", LitInteger(1)), Fn2("pow", Fn("last", U), 2), Fn2("abs", U, 2),
      Binary(Fn("last", U), "+", LitInteger(1)), Binary(LitInteger(1), "+", U), Binary(LitInteger(1), "+", LitInteger(1)),
      Binary(Fn("last", U), "+", Fn("first", U)), Binary(Fn("last", U), "+", U), Binary(Fn("last", U), "+", V("time")),
      Nested(Fn("last", U)),
      Fn("derivative", U), Fn("derivative", Fn("mean", U)), Fn("derivative", Fn2("top", U, 2)), Fn("derivative", Fn("distinct", U)),
      Call("derivative", <<U, LitDuration(0)>>), Call("derivative", <<Fn("max", U), LitDuration(10)>>), Fn2("derivative", U, 1),
      Fn("difference", Fn("max", U)), Fn("cumulative_sum", Fn("sum", U)), Fn("elapsed", U), Call("integral", <<U, LitDuration(10)>>),
      Fn2("moving_average", Fn("last", U), 2), Fn2("moving_average", U, 1),
      Call("holt_winters", <<Fn("mean", U), LitInteger(2), LitInteger(3)>>), Call("holt_winters", <<Fn2("top", U, 2), LitInteger(2), LitInteger(3)>>),
      Call("holt_winters", <<U, LitInteger(2), LitInteger(3)>>), Call("holt_winters", <<Fn("mean", U), LitInteger(0), LitInteger(3)>>),
      Fn2("exponential_moving_average", U, 2), Call("exponential_moving_average", <<Fn("mean", U), LitInteger(2), LitInteger(-1), LitString("simple")>>),
      Call("triple_exponential_derivative", <<U, LitInteger(2), LitInteger(0)>>),
      Call("kaufmans_efficiency_ratio", <<U, LitInteger(2), LitInteger(-2)>>), Fn2("kaufmans_efficiency_ratio", U, 2),
      Call("chande_momentum_oscillator", <<U, LitInteger(2), LitInteger(0), LitString("none")>>),
      Call("chande_momentum_oscillator", <<U, LitInteger(2), LitInteger(0), LitString("linear")>>),
      Fn("derivative", LitInteger(1)), Fn("cumulative_sum", Wildcard(None)), Fn("difference", U), Fn("non_negative_difference", LitRegex("^usage")),
      Fn("elapsed", Fn("count", U)), Fn("non_negative_derivative", Fn("foo", U)), Fn2("moving_average", U, 2),
      Fn2("kaufmans_adaptive_moving_average", Fn("mean", U), 2), Fn2("chande_momentum_oscillator", Fn("max", LitInteger(1)), 2) }

InfoRest == {U, V("time"), Fn("last", U), Fn("mean", U), Fn2("top", U, 2)}

InfoFields ==
    UNION {{<<e>> \o rest, rest \o <<e>>} : e \in InfoItems, rest \in SeqsUpTo(InfoRest, MaxFields - 2)}

InfoSelects ==
    {Select(MapSeq(fs, F), <<Table("cpu")>>, gb, fill) :
        fs \in InfoFields, gb \in {None, Some(<<DimTag("host")>>), Some(<<DimTime, DimTag("host")>>)}, fill \in {None, Some("FILL(PREVIOUS)")}}

-----------------------------------------------------------------------------
(* Selectors (query_functions::selectors::internal)                        *)
(*                                                                         *)
(* A batch is a sequence of rows [value, time], the value array and the    *)
(* time array side by side.  A value is null (None) or Some of a number,   *)
(* which for the f64 selectors may be NaN; a time is never null.           *)

Num(n) == [nan |-> FALSE, num |-> n]

NaN == [nan |-> TRUE, num |-> 0]

Times == {100, 200}

Values == {None, Some(NaN), Some(Num(1)), Some(Num(2))}

MaxBatchLen == 2

Rows == [value : Values, time : Times]

Batches == UNION {[1..n -> Rows] : n \in 0..MaxBatchLen}

(* f64 `<` and `==`: false whenever an operand is NaN                      *)
lt_val(a, b) == ~a.nan /\ ~b.nan /\ a.num < b.num

val_eq(a, b) == ~a.nan /\ ~b.nan /\ a.num = b.num

(* Option<T> == Option<T> on array values and kernel results               *)
opt_eq(a, b) == IF a = None \/ b = None THEN a = b ELSE val_eq(a[1], b[1])

SetMin(S) == CHOOSE x \in S : \A y \in S : x <= y

SetMax(S) == CHOOSE x \in S : \A y \in S : y <= x

(* arrow::compute::nullif(time_arr, is_null(value_arr)): the times of the  *)
(* rows with a value, None for the others                                  *)
nullif(batch) == [i \in DOMAIN batch |-> IF batch[i].value = None THEN None ELSE Some(batch[i].time)]

(* the min and max kernels over a timestamp array; nulls are skipped       *)
time_min(time_arr) ==
    LET S == {time_arr[i][1] : i \in {j \in DOMAIN time_arr : IsSome(time_arr[j])}} IN IF S = {} THEN None ELSE Some(SetMin(S))

time_max(time_arr) ==
    LET S == {time_arr[i][1] : i \in {j \in DOMAIN time_arr : IsSome(time_arr[j])}} IN IF S = {} THEN None ELSE Some(SetMax(S))

(* the numbers of a value array: nulls and NaN left out                    *)
Numbers(batch) == {batch[i].value[1].num : i \in {j \in DOMAIN batch : IsSome(batch[j].value) /\ ~batch[j].value[1].nan}}

HasNaN(batch) == \E i \in DOMAIN batch : batch[i].value = Some(NaN)

(* the min and max kernels over a value array: nulls are skipped, and for  *)
(* floating point arrays NaN counts as greater than any other value        *)
array_min(batch) ==
    IF Numbers(batch) # {} THEN Some(Num(SetMin(Numbers(batch)))) ELSE IF HasNaN(batch) THEN Some(NaN) ELSE None

array_max(batch) ==
    IF HasNaN(batch) THEN Some(NaN) ELSE IF Numbers(batch) # {} THEN Some(Num(SetMax(Numbers(batch)))) ELSE None

(* .enumerate().find(|(_, time)| cur == *time): the first index            *)
find_index(time_arr, cur) == CHOOSE i \in DOMAIN time_arr : time_arr[i] = cur /\ \A j \in 1..(i - 1) : time_arr[j] # cur

Selector(kind) == [kind |-> kind, value |-> None, time |-> None]

NoSelector == Selector("")

(* FirstSelector::update_batch over the times of all rows, null or not     *)
first_update_batch_all_rows(s, batch) ==
    LET time_arr == [i \in DOMAIN batch |-> Some(batch[i].time)]
        cur_min_time == time_min(time_arr)
        need_update == IF cur_min_time = None THEN FALSE ELSE IF s.time = None THEN TRUE ELSE cur_min_time[1] < s.time[1]
    IN  IF need_update
        THEN [s EXCEPT !.time = cur_min_time, !.value = batch[find_index(time_arr, cur_min_time)].value]
        ELSE s

(* FirstSelector::update_batch                                             *)
first_update_batch(s, batch) ==
    LET time_arr == nullif(batch)
        cur_min_time == time_min(time_arr)
        need_update == IF cur_min_time = None THEN FALSE ELSE IF s.time = None THEN TRUE ELSE cur_min_time[1] < s.time[1]
    IN  IF need_update
        THEN [s EXCEPT !.time = cur_min_time, !.value = batch[find_index(time_arr, cur_min_time)].value]
        ELSE s

(* LastSelector::update_batch                                              *)
last_update_batch(s, batch) ==
    LET time_arr == nullif(batch)
        cur_max_time == time_max(time_arr)
        need_update == IF cur_max_time = None THEN FALSE ELSE IF s.time = None THEN TRUE ELSE s.time[1] < cur_max_time[1]
    IN  IF need_update
        THEN [s EXCEPT !.time = cur_max_time, !.value = batch[find_index(time_arr, cur_max_time)].value]
        ELSE s

(* ActionNeeded                                                            *)
update_value(action_needed) == action_needed = "UpdateValueAndTime"

update_time(action_needed) == action_needed \in {"UpdateValueAndTime", "UpdateTime"}

(* the lowest time among the rows whose value equals cur, chained with the *)
(* time already held                                                       *)
lowest_time(batch, cur, held) ==
    LET S == {batch[i].time : i \in {j \in DOMAIN batch : opt_eq(batch[j].value, cur)}}
             \cup (IF held = None THEN {} ELSE {held[1]})
    IN  IF S = {} THEN None ELSE Some(SetMin(S))

(* the two effects of update_batch of a min or max selector                *)
apply_action(s, batch, cur, action_needed) ==
    LET valued == IF update_value(action_needed) THEN [s EXCEPT !.value = cur, !.time = None] ELSE s
    IN  IF update_time(action_needed) THEN [valued EXCEPT !.time = lowest_time(batch, cur, valued.time)] ELSE valued

(* make_min_selector!: update_batch                                        *)
min_update_batch(s, batch) ==
    LET cur_min_value == array_min(batch)
        action_needed == IF cur_min_value = None THEN "Nothing"
                         ELSE IF s.value = None THEN "UpdateValueAndTime"
                         ELSE IF lt_val(cur_min_value[1], s.value[1]) THEN "UpdateValueAndTime"
                         ELSE IF val_eq(cur_min_value[1], s.value[1]) THEN "UpdateTime"
                         ELSE "Nothing"
    IN  apply_action(s, batch, cur_min_value, action_needed)

(* make_max_selector!: update_batch                                        *)
max_update_batch(s, batch) ==
    LET cur_max_value == array_max(batch)
        action_needed == IF cur_max_value = None THEN "Nothing"
                         ELSE IF s.value = None THEN "UpdateValueAndTime"
                         ELSE IF lt_val(s.value[1], cur_max_value[1]) THEN "UpdateValueAndTime"
                         ELSE IF val_eq(cur_max_value[1], s.value[1]) THEN "UpdateTime"
                         ELSE "Nothing"
    IN  apply_action(s, batch, cur_max_value, action_needed)

-----------------------------------------------------------------------------
(* The Authorizer trait (authz)                                            *)
(*                                                                         *)
(* An authorizer is None (authorization disabled) or Some of a client of   *)
(* the service, which is up or not and grants each token a set of          *)
(* permissions.                                                            *)

Permissions == {"read", "write", "create"}

Tokens == {None, Some("alice"), Some("bob")}

Services == {[up |-> up, grants |-> g] : up \in BOOLEAN, g \in {[alice |-> {"read", "write"}, bob |-> {}], [alice |-> {"create"}, bob |-> {"read"}]}}

Authorizers == {None} \cup {Some(a) : a \in Services}

MaxPerms == 2

PermLists == UNION {[1..n -> Permissions] : n \in 0..MaxPerms}

(* IoxAuthorizer::permissions: a request without a token is not sent, a   *)
(* failed call is a verification error, and the answer of the service is   *)
(* the requested permissions the token has, in the order requested         *)
iox_permissions(a, token, perms) ==
    IF token = None THEN Err("NoToken", "no token")
    ELSE IF ~a.up THEN Err("Verification", "token verification not possible: unavailable")
    ELSE Ok(SelectSeq(perms, LAMBDA p : p \in a.grants[token[1]]))

(* impl Authorizer for Option<T>: permissions                              *)
permissions(authorizer, token, perms) ==
    IF IsSome(authorizer) THEN iox_permissions(authorizer[1], token, perms) ELSE Ok(perms)

(* require_any_permission that takes a failed call for an empty answer     *)
require_any_permission_error_forbidden(authorizer, token, perms) ==
    LET r == permissions(authorizer, token, perms)
    IN  IF ~r.ok \/ r.val = <<>> THEN Err("Forbidden", "forbidden") ELSE Ok(<<>>)

(* Authorizer::require_any_permission                                      *)
require_any_permission(authorizer, token, perms) ==
    LET r == permissions(authorizer, token, perms)
    IN  IF ~r.ok THEN r ELSE IF r.val = <<>> THEN Err("Forbidden", "forbidden") ELSE Ok(<<>>)

NoRequest == [authorizer |-> None, token |-> None, perms |-> <<>>, response |-> None]

-----------------------------------------------------------------------------
(* rewrite_statement, pass by pass                                         *)

NoResult == [ok |-> FALSE, err |-> NoError, select |-> EmptySelect, has_multiple_measurements |-> FALSE]

(* FieldChecker::default()                                                 *)
NoChecker == FieldChecker(FALSE)

NoInfo == [ok |-> FALSE, err |-> NoError, projection_type |-> ProjectionType("Raw", FALSE)]

Init ==
    /\ stmt \in Statements
    /\ pc = "start"
    /\ sel = EmptySelect
    /\ result = NoResult
    /\ fc = NoChecker
    /\ idx = 0
    /\ info = NoInfo
    /\ selector = NoSelector
    /\ seen = {}
    /\ authz = NoRequest

(* let mut select = map_select(s, q)?                                      *)
Mapped(r) ==
    IF r.ok
    THEN sel' = r.val /\ pc' = "mapped" /\ UNCHANGED result
    ELSE result' = [NoResult EXCEPT !.err = r.err] /\ pc' = "done" /\ UNCHANGED sel

MapSelect ==
    /\ pc = "start"
    /\ Mapped(map_select(stmt))
    /\ UNCHANGED <<stmt, fc, idx, info, selector, seen, authz>>

FromDropEmpty ==
    /\ pc = "mapped"
    /\ sel' = from_drop_empty(sel)
    /\ pc' = "pruned"
    /\ UNCHANGED <<stmt, result, fc, idx, info, selector, seen, authz>>

NormalizeTime ==
    /\ pc = "pruned"
    /\ sel' = field_list_normalize_time(sel)
    /\ pc' = "normalized"
    /\ UNCHANGED <<stmt, result, fc, idx, info, selector, seen, authz>>

(* the alias pass run on the field lists of the subqueries under FROM too   *)
NormalizedWithSubqueries(q) ==
    [q EXCEPT !.fields = field_list_rewrite_aliases(q.fields),
              !.from = [i \in DOMAIN q.from |->
                           IF q.from[i].kind = "Subquery"
                           THEN Subquery([q.from[i].q[1] EXCEPT !.fields = field_list_rewrite_aliases(q.from[i].q[1].fields)])
                           ELSE q.from[i]]]

Normalized(q) == [q EXCEPT !.fields = field_list_rewrite_aliases(q.fields)]

RewriteAliases ==
    /\ pc = "normalized"
    /\ sel' = Normalized(sel)
    /\ pc' = "aliased"
    /\ UNCHANGED <<stmt, result, fc, idx, info, selector, seen, authz>>

(* Ok(SelectQuery { select, has_multiple_measurements })                   *)
Return ==
    /\ pc = "aliased"
    /\ result' = [ok |-> TRUE, err |-> NoError, select |-> sel, has_multiple_measurements |-> has_multiple_measurements(sel)]
    /\ pc' = "done"
    /\ UNCHANGED <<stmt, sel, fc, idx, info, selector, seen, authz>>

(* the normalization passes run once more over the returned select         *)
Renormalize ==
    /\ pc = "done"
    /\ result.ok
    /\ sel' = Normalized(field_list_normalize_time(sel))
    /\ pc' = "again"
    /\ UNCHANGED <<stmt, result, fc, idx, info, selector, seen, authz>>

Next == MapSelect \/ FromDropEmpty \/ NormalizeTime \/ RewriteAliases \/ Return \/ Renormalize

Spec == Init /\ [][Next]_vars

-----------------------------------------------------------------------------
(* select_statement_info, field by field                                   *)

InitInfo ==
    /\ sel \in InfoSelects
    /\ stmt = Stmt(<<>>, <<>>, None)
    /\ pc = "info"
    /\ result = NoResult
    /\ fc = NoChecker
    /\ idx = 0
    /\ info = NoInfo
    /\ selector = NoSelector
    /\ seen = {}
    /\ authz = NoRequest

(* let mut fc = FieldChecker { has_group_by_time, ..Default::default() }   *)
NewFieldChecker ==
    /\ pc = "info"
    /\ fc' = FieldChecker(HasGroupByTime(sel))
    /\ idx' = 1
    /\ pc' = "check_fields"
    /\ UNCHANGED <<stmt, sel, result, info, selector, seen, authz>>

Checked(r) ==
    /\ fc' = r.fc
    /\ IF r.ok
       THEN idx' = idx + 1 /\ pc' = "check_fields" /\ UNCHANGED info
       ELSE info' = [NoInfo EXCEPT !.err = r.err] /\ pc' = "info_done" /\ UNCHANGED idx

(* q.fields.iter().try_for_each(|f| self.check_expr(&f.expr))?             *)
CheckField ==
    /\ pc = "check_fields"
    /\ idx <= Len(sel.fields)
    /\ Checked(check_expr(fc, sel.fields[idx].expr))
    /\ UNCHANGED <<stmt, sel, result, selector, seen, authz>>

Decided(r) ==
    IF r.ok THEN [ok |-> TRUE, err |-> NoError, projection_type |-> projection_type(r.fc)] ELSE [NoInfo EXCEPT !.err = r.err]

(* the rest of check_fields, and Ok(SelectStatementInfo { .. })            *)
CheckFields ==
    /\ pc = "check_fields"
    /\ idx > Len(sel.fields)
    /\ info' = Decided(check_fields_rules(fc, sel))
    /\ pc' = "info_done"
    /\ UNCHANGED <<stmt, sel, result, fc, idx, selector, seen, authz>>

NextInfo == NewFieldChecker \/ CheckField \/ CheckFields

SpecInfo == InitInfo /\ [][NextInfo]_vars

-----------------------------------------------------------------------------
(* A selector fed batch after batch                                        *)

InitSelector ==
    /\ selector \in {Selector(k) : k \in {"first", "last", "min", "max"}}
    /\ seen = {}
    /\ authz = NoRequest
    /\ pc = "selector"
    /\ stmt = Stmt(<<>>, <<>>, None)
    /\ sel = EmptySelect
    /\ result = NoResult
    /\ fc = NoChecker
    /\ idx = 0
    /\ info = NoInfo

Fed(batch) == seen' = seen \cup Range(batch) /\ UNCHANGED <<rewriter, authz>>

FirstUpdateBatch == \E batch \in Batches : selector.kind = "first" /\ selector' = first_update_batch(selector, batch) /\ Fed(batch)

LastUpdateBatch == \E batch \in Batches : selector.kind = "last" /\ selector' = last_update_batch(selector, batch) /\ Fed(batch)

MinUpdateBatch == \E batch \in Batches : selector.kind = "min" /\ selector' = min_update_batch(selector, batch) /\ Fed(batch)

MaxUpdateBatch == \E batch \in Batches : selector.kind = "max" /\ selector' = max_update_batch(selector, batch) /\ Fed(batch)

NextSelector == FirstUpdateBatch \/ LastUpdateBatch \/ MinUpdateBatch \/ MaxUpdateBatch

SpecSelector == InitSelector /\ [][NextSelector]_vars

-----------------------------------------------------------------------------
(* Requests checked against an authorizer                                  *)

InitAuthz ==
    /\ authz \in {[NoRequest EXCEPT !.authorizer = a] : a \in Authorizers}
    /\ selector = NoSelector
    /\ seen = {}
    /\ pc = "authz"
    /\ stmt = Stmt(<<>>, <<>>, None)
    /\ sel = EmptySelect
    /\ result = NoResult
    /\ fc = NoChecker
    /\ idx = 0
    /\ info = NoInfo

RequireAnyPermission ==
    \E token \in Tokens, perms \in PermLists :
        /\ authz' = [authz EXCEPT !.token = token, !.perms = perms, !.response = Some(require_any_permission(authz.authorizer, token, perms))]
        /\ UNCHANGED <<rewriter, selector, seen>>

NextAuthz == RequireAnyPermission

SpecAuthz == InitAuthz /\ [][NextAuthz]_vars

-----------------------------------------------------------------------------
(* What the claims speak of                                                *)

(* rewrite_statement has returned Ok                                       *)
RewriteOk == pc = "done" /\ result.ok

FirstIsTime(fields) ==
    /\ fields # <<>>
    /\ IsVarRef(fields[1].expr)
    /\ fields[1].expr.name = "time"
    /\ fields[1].expr.dt = Some("Timestamp")

(* the places of the top-level time columns of a projection                *)
TimeColumns(fields) == {i \in DOMAIN fields : IsVarRef(fields[i].expr) /\ fields[i].expr.name = "time"}

FirstTimeColumn(fields) == CHOOSE i \in TimeColumns(fields) : \A j \in TimeColumns(fields) : i <= j

(* the alias the statement wrote on its first top-level time column, and   *)
(* "time" when it wrote none                                               *)
WrittenTimeAlias(fields) ==
    IF TimeColumns(fields) # {} /\ fields[FirstTimeColumn(fields)].alias # None
    THEN fields[FirstTimeColumn(fields)].alias[1]
    ELSE "time"

RECURSIVE AllSubqueries(_)

(* the subqueries of a select, at every depth                              *)
AllSubqueries(q) ==
    UNION {{q.from[i].q[1]} \cup AllSubqueries(q.from[i].q[1]) : i \in {j \in DOMAIN q.from : q.from[j].kind = "Subquery"}}

RECURSIVE AllTables(_)

(* the table names reachable from a FROM list, through subqueries too      *)
AllTables(from) ==
    UNION {IF from[i].kind = "Table" THEN {from[i].name} ELSE AllTables(from[i].q[1].from) : i \in DOMAIN from}

SetsLimit(q) == q.series_limit # None \/ q.series_offset # None

RECURSIVE AnyLimit(_)

(* the statement or a subquery of it at any depth sets SLIMIT or SOFFSET   *)
AnyLimit(q) ==
    SetsLimit(q) \/ \E i \in DOMAIN q.from : q.from[i].kind = "Subquery" /\ AnyLimit(q.from[i].q[1])

(* a measurement of a FROM list that is resolved without error             *)
SourceResolves(m) ==
    CASE m.kind = "Name" -> TRUE
      [] m.kind = "Regex" -> RegexValid(m.name)
      [] m.kind = "Subquery" -> map_select(m.q[1]).ok

RECURSIVE LimitMetFirst(_)

(* a series limit is the first thing to fail: the statement sets one, or a *)
(* subquery does that is met before any source that fails                  *)
LimitMetFirst(q) ==
    \/ SetsLimit(q)
    \/ \E i \in DOMAIN q.from :
          /\ q.from[i].kind = "Subquery"
          /\ LimitMetFirst(q.from[i].q[1])
          /\ \A j \in 1..(i - 1) : SourceResolves(q.from[j])

IsLimitError == pc = "done" /\ ~result.ok /\ result.err = [category |-> "NotImplemented", msg |-> "SLIMIT or SOFFSET"]

RECURSIVE CallCount(_)

RECURSIVE CallCountAll(_)

(* the calls in an expression to functions that are not scalar math        *)
CallCount(e) == (IF IsCall(e) /\ ~is_scalar_math_function(e.name) THEN 1 ELSE 0) + CallCountAll(e.args)

CallCountAll(es) == IF es = <<>> THEN 0 ELSE CallCount(Head(es)) + CallCountAll(Tail(es))

RECURSIVE SumCalls(_)

SumCalls(fields) == IF fields = <<>> THEN 0 ELSE CallCount(Head(fields).expr) + SumCalls(Tail(fields))

SelectorNames == {"first", "last", "max", "min", "percentile", "sample"}

ProjectsTopBottom(q) ==
    \E i \in DOMAIN q.fields : \E x \in SubExprs(q.fields[i].expr) : IsCall(x) /\ x.name \in {"top", "bottom"}

SelectorCalls(q) ==
    UNION {{x \in SubExprs(q.fields[i].expr) : IsCall(x) /\ x.name \in SelectorNames} : i \in DOMAIN q.fields}

RECURSIVE OuterVarRefs(_)

(* the columns an expression names outside the arguments of its function   *)
(* calls that are not scalar math                                          *)
OuterVarRefs(e) ==
    IF IsVarRef(e) THEN {e.name}
    ELSE IF IsCall(e) /\ ~is_scalar_math_function(e.name) THEN {}
    ELSE UNION {OuterVarRefs(e.args[i]) : i \in DOMAIN e.args}

InfoOk == pc = "info_done" /\ info.ok

IsSelectorWithoutFields == InfoOk /\ info.projection_type = ProjectionType("Selector", FALSE)

-----------------------------------------------------------------------------
(* C1: as the claim states it: after rewrite_statement succeeds the first  *)
(* field of the returned statement is VarRef time typed Timestamp with the *)
(* alias "time".                                                           *)
C1_AliasAlwaysTime ==
    RewriteOk => FirstIsTime(result.select.fields) /\ result.select.fields[1].alias = Some("time")

(* C1: after rewrite_statement succeeds the first field of the returned    *)
(* statement is VarRef time typed Timestamp; its alias is the alias        *)
(* written on the first top-level time column of the expanded projection,  *)
(* and "time" when none was written.                                       *)
C1_TimeFirst ==
    RewriteOk => FirstIsTime(result.select.fields)
                 /\ result.select.fields[1].alias = Some(WrittenTimeAlias(map_select(stmt).val.fields))

(* a statement that writes "time AS t" after another column was rewritten  *)
C1_Witness ==
    /\ RewriteOk
    /\ Len(stmt.fields) >= 2
    /\ stmt.fields[1].expr = V("usage_user")
    /\ stmt.fields[2] = Field(V("time"), Some("t"))
    /\ result.select.fields[1].alias = Some("t")

(* C2: after rewrite_statement succeeds every field of the returned        *)
(* statement has an alias and no two fields have the same alias.           *)
C2_AliasesDistinct ==
    RewriteOk => /\ \A i \in DOMAIN result.select.fields : result.select.fields[i].alias # None
                 /\ \A i, j \in DOMAIN result.select.fields :
                       i # j => result.select.fields[i].alias # result.select.fields[j].alias

(* a generated alias had to step over an alias the user wrote              *)
C2_Witness ==
    /\ RewriteOk
    /\ \E i, j, k \in DOMAIN stmt.fields :
          /\ i # j /\ j < k
          /\ stmt.fields[i].alias = Some("usage_user_1")
          /\ stmt.fields[j] = F(V("usage_user"))
          /\ stmt.fields[k] = F(V("usage_user"))
    /\ \A i \in DOMAIN stmt.fields : stmt.fields[i].alias # Some("usage_user_2")
    /\ \E i \in DOMAIN result.select.fields : result.select.fields[i].alias = Some("usage_user_2")

(* C3: after rewrite_statement succeeds no field of the returned statement *)
(* holds a wildcard or a regular expression literal at any depth, and no   *)
(* GROUP BY dimension is a wildcard or a regular expression.               *)
C3_NoWildcards ==
    RewriteOk => /\ \A i \in DOMAIN result.select.fields : ~ContainsWildcardOrRegex(result.select.fields[i].expr)
                 /\ result.select.group_by # None =>
                       \A i \in DOMAIN result.select.group_by[1] : result.select.group_by[1][i].kind \notin {"Wildcard", "Regex"}

(* C4: has_multiple_measurements is true exactly when two or more distinct *)
(* table names are reachable from the returned FROM, subqueries included.  *)
C4_MultipleMeasurements ==
    RewriteOk => (result.has_multiple_measurements <=> Cardinality(AllTables(result.select.from)) >= 2)

(* the second table name is met in a subquery only                         *)
C4_Witness ==
    /\ RewriteOk
    /\ result.has_multiple_measurements
    /\ Cardinality({result.select.from[i].name : i \in {j \in DOMAIN result.select.from : result.select.from[j].kind = "Table"}}) = 1
    /\ \E i \in DOMAIN result.select.from : result.select.from[i].kind = "Subquery"

(* C5: as the claim states it: rewrite_statement fails with not            *)
(* implemented "SLIMIT or SOFFSET" whenever the statement or a subquery of *)
(* it at any depth sets a series limit or offset.                          *)
C5_AlwaysLimitError == (pc = "done" /\ AnyLimit(stmt)) => IsLimitError

(* C5: rewrite_statement fails whenever the statement or a subquery of it  *)
(* at any depth sets a series limit or offset; the error is not            *)
(* implemented "SLIMIT or SOFFSET" when the statement sets one itself, and *)
(* when a subquery sets one and every source listed before it, in each     *)
(* FROM on the way down, is resolved without error.                        *)
C5_LimitRejected ==
    pc = "done" => /\ AnyLimit(stmt) => ~result.ok
                   /\ LimitMetFirst(stmt) => IsLimitError

(* a subquery sets a limit, and the source listed before it fails first    *)
C5_Witness ==
    /\ pc = "done"
    /\ AnyLimit(stmt)
    /\ ~LimitMetFirst(stmt)
    /\ ~result.ok
    /\ result.err.category = "Plan"

(* C6: running the time normalization and the alias assignment again on    *)
(* the returned statement changes nothing.                                 *)
C6_Idempotent == pc = "again" => sel = result.select

(* the second run is over a statement the first run gave a time column    *)
(* and a generated alias                                                   *)
C6_Witness ==
    /\ pc = "again"
    /\ TimeColumns(stmt.fields) = {}
    /\ Len(result.select.fields) = Len(stmt.fields) + 1
    /\ \E i \in DOMAIN result.select.fields : result.select.fields[i].alias = Some("usage_user_1")

(* C7: when select_statement_info succeeds on a projection with a call to  *)
(* top or bottom, the checker has counted exactly one function, and the    *)
(* projection holds exactly one call to a function that is not scalar math.*)
C7_TopBottomAlone ==
    (InfoOk /\ ProjectsTopBottom(sel)) => function_count(fc) = 1 /\ SumCalls(sel.fields) = 1

(* top is accepted next to a plain field and under a scalar function       *)
C7_Witness ==
    /\ InfoOk
    /\ info.projection_type.kind = "TopBottomSelector"
    /\ Len(sel.fields) = 2
    /\ sel.fields[1].expr = Fn("abs", Fn2("top", U, 2))
    /\ sel.fields[2].expr = U

(* C8: as the claim states it: with Selector { has_fields: false } the     *)
(* projection has, apart from the time column, exactly one field, and that *)
(* field is a call to a selector function.                                 *)
C8_OneSelectorField ==
    IsSelectorWithoutFields =>
        \E i \in DOMAIN sel.fields :
            /\ IsCall(sel.fields[i].expr) /\ sel.fields[i].expr.name \in SelectorNames
            /\ \A j \in DOMAIN sel.fields : j # i => sel.fields[j].expr = V("time")

(* C8: with Selector { has_fields: false } the projection holds exactly    *)
(* one call to a selector function, at any depth, and no other call to a   *)
(* function that is not scalar math; no GROUP BY time; and no column other *)
(* than time is named outside the arguments of that call.                  *)
C8_OneSelectorCall ==
    IsSelectorWithoutFields =>
        /\ Cardinality(SelectorCalls(sel)) = 1
        /\ SumCalls(sel.fields) = 1
        /\ ~HasGroupByTime(sel)
        /\ \A i \in DOMAIN sel.fields : OuterVarRefs(sel.fields[i].expr) \subseteq {"time"}

(* the selector is wrapped in a scalar function, with time after it        *)
C8_Witness ==
    /\ IsSelectorWithoutFields
    /\ Len(sel.fields) = 2
    /\ sel.fields[1].expr = Fn("abs", Fn("last", U))
    /\ sel.fields[2].expr = V("time")

(* C9: after rewrite_statement succeeds every subquery of the returned     *)
(* statement, at every depth, has VarRef time typed Timestamp with alias   *)
(* "time" as its first field.                                              *)
C9_SubqueryTimeFirst ==
    RewriteOk => \A q \in AllSubqueries(result.select) : FirstIsTime(q.fields) /\ q.fields[1].alias = Some("time")

(* C10: a table named in FROM is in the returned FROM exactly when it      *)
(* exists and a field of the returned projection names one of its field    *)
(* columns; and every table of a returned subquery exists and has a field  *)
(* column named by the projection of that subquery.                        *)
C10_TablesRetained ==
    RewriteOk =>
        /\ \A i \in {j \in DOMAIN stmt.from : stmt.from[j].kind = "Name"} :
              Table(stmt.from[i].name) \in Range(result.select.from)
              <=> /\ stmt.from[i].name \in Range(TableNames)
                  /\ \E k \in DOMAIN result.select.fields : \E x \in SubExprs(result.select.fields[k].expr) :
                        IsVarRef(x) /\ x.name \in DOMAIN TableFields(stmt.from[i].name)
        /\ \A q \in AllSubqueries(result.select) : \A i \in {j \in DOMAIN q.from : q.from[j].kind = "Table"} :
              /\ q.from[i].name \in Range(TableNames)
              /\ \E k \in DOMAIN q.fields : \E x \in SubExprs(q.fields[k].expr) :
                    IsVarRef(x) /\ x.name \in DOMAIN TableFields(q.from[i].name)

(* of two tables that exist one is kept and one is dropped, and a table    *)
(* matched through a tag alone is dropped                                  *)
C10_Witness ==
    /\ RewriteOk
    /\ stmt.from = <<MName("disk"), MName("cpu")>>
    /\ \E i \in DOMAIN result.select.fields : result.select.fields[i].expr.name = "host"
    /\ result.select.from = <<Table("cpu")>>

RECURSIVE ParentChild(_)

(* the pairs of a select and a subquery of its FROM, at every depth        *)
ParentChild(p) ==
    UNION {{<<p, p.from[i].q[1]>>} \cup ParentChild(p.from[i].q[1]) : i \in {j \in DOMAIN p.from : p.from[j].kind = "Subquery"}}

(* the projection of p holds a VarRef that names an output field of q      *)
NamedBy(p, q) ==
    \E k \in DOMAIN p.fields : \E x \in SubExprs(p.fields[k].expr) :
        IsVarRef(x) /\ \E j \in DOMAIN q.fields : field_name(q.fields[j]) = x.name

SubqueriesGrounded(s) ==
    \A pq \in ParentChild(s) :
        /\ AllTables(pq[2].from) # {}
        /\ AllTables(pq[2].from) \subseteq Range(TableNames)
        /\ NamedBy(pq[1], pq[2])

(* C11: every subquery left in a FROM list, at every depth, reaches an     *)
(* existing table from its own FROM and has an output field named by a     *)
(* VarRef of its parent's projection; this holds right after               *)
(* from_drop_empty, before any time column is added, and of the returned   *)
(* statement.                                                              *)
C11_SubqueriesRetained ==
    /\ pc = "pruned" => SubqueriesGrounded(sel)
    /\ RewriteOk => SubqueriesGrounded(result.select)

(* a subquery two levels down is kept while a source of the outer FROM is  *)
(* removed                                                                 *)
C11_Witness ==
    /\ RewriteOk
    /\ Len(result.select.from) < Len(stmt.from)
    /\ \E q \in AllSubqueries(result.select) : \E i \in DOMAIN q.from : q.from[i].kind = "Subquery"

RECURSIVE CountNamed(_, _)

RECURSIVE CountNamedAll(_, _)

(* the calls in an expression to the functions of the set S                *)
CountNamed(e, S) == (IF IsCall(e) /\ e.name \in S THEN 1 ELSE 0) + CountNamedAll(e.args, S)

CountNamedAll(es, S) == IF es = <<>> THEN 0 ELSE CountNamed(Head(es), S) + CountNamedAll(Tail(es), S)

RECURSIVE SumNamed(_, _)

SumNamed(fields, S) == IF fields = <<>> THEN 0 ELSE CountNamed(Head(fields).expr, S) + SumNamed(Tail(fields), S)

(* the selector calls of a projection, top and bottom among them, and its  *)
(* other calls that are not scalar math: aggregates and window functions   *)
SelectorCount(q) == SumNamed(q.fields, SelectorNames \cup {"top", "bottom"})

AggregateCount(q) == SumCalls(q.fields) - SelectorCount(q)

RECURSIVE DistinctOutside(_)

(* a call to distinct that is not the argument of another function, scalar *)
(* math aside                                                              *)
DistinctOutside(e) ==
    IF IsCall(e) /\ e.name = "distinct" THEN TRUE
    ELSE IF IsCall(e) /\ ~is_scalar_math_function(e.name) THEN FALSE
    ELSE \E i \in DOMAIN e.args : DistinctOutside(e.args[i])

ProjectsDistinct(q) == \E i \in DOMAIN q.fields : DistinctOutside(q.fields[i].expr)

(* a field or tag other than time named outside the arguments of the       *)
(* aggregate, selector and window calls                                    *)
ProjectsBareColumn(q) == \E i \in DOMAIN q.fields : OuterVarRefs(q.fields[i].expr) \ {"time"} # {}

DecisionTable(q) ==
    IF ProjectsTopBottom(q) THEN ProjectionType("TopBottomSelector", FALSE)
    ELSE IF HasGroupByTime(q) THEN ProjectionType("Aggregate", FALSE)
    ELSE IF ProjectsDistinct(q) THEN ProjectionType("RawDistinct", FALSE)
    ELSE IF SelectorCount(q) = 1 /\ AggregateCount(q) = 0 THEN ProjectionType("Selector", ProjectsBareColumn(q))
    ELSE IF SelectorCount(q) > 1 \/ AggregateCount(q) > 0 THEN ProjectionType("Aggregate", FALSE)
    ELSE ProjectionType("Raw", FALSE)

-----------------------------------------------------------------------------
(* C13: whenever select_statement_info succeeds on a statement with GROUP   *)
(* BY time, every projected field other than time is an aggregate or        *)
(* selector expression: no field or tag is projected outside the calls.     *)
C13_GroupByTimeAllAggregate == InfoOk /\ HasGroupByTime(sel) => ~ProjectsBareColumn(sel)

(* C14: whenever select_statement_info succeeds, every projected field      *)
(* refers to at least one field or tag; a projection built only from        *)
(* literals, a function applied only to literals included, is rejected.     *)
C14_NoLiteralProjection == InfoOk => \A i \in DOMAIN sel.fields : VarRefNames(sel.fields[i].expr) # {}

(* every field of the statement passed check_expr, and check_fields went   *)
(* on to its rules across fields                                           *)
FieldsPassed == pc = "info_done" /\ idx > Len(sel.fields)

(* a call to top or bottom with field or tag arguments between the first   *)
(* argument and the limit                                                  *)
TopBottomExtra(q) ==
    \E i \in DOMAIN q.fields : \E x \in SubExprs(q.fields[i].expr) : IsCall(x) /\ x.name \in {"top", "bottom"} /\ Len(x.args) > 2

(* the non-aggregate columns of a projection: a field or tag outside the   *)
(* aggregate, selector and window calls, under scalar math included, and   *)
(* the extra arguments of top and bottom                                   *)
ProjectsNonAggregate(q) == ProjectsBareColumn(q) \/ TopBottomExtra(q)

MixingAggregate == "mixing aggregate and non-aggregate columns is not supported"

MixingSelectors == "mixing multiple selector functions with tags or fields is not supported"

InfoError(m) == pc = "info_done" /\ ~info.ok /\ info.err.msg = m

(* C15: as the claim states it: a statement whose fields each pass their   *)
(* own checks and that projects a non-aggregate column, the extra          *)
(* arguments of top and bottom included, next to an aggregate or window    *)
(* function fails with the mixing-aggregate message, and next to more than *)
(* one selector with the mixing-selectors message (distinct, which has a   *)
(* message of its own, left aside).                                        *)
C15_MixingMessages ==
    FieldsPassed /\ ProjectsNonAggregate(sel) /\ ~ProjectsDistinct(sel) =>
        /\ AggregateCount(sel) > 0 => InfoError(MixingAggregate)
        /\ AggregateCount(sel) = 0 /\ SelectorCount(sel) > 1 => InfoError(MixingSelectors)

(* C15: select_statement_info rejects every statement that projects a      *)
(* non-aggregate column together with an aggregate or window function or   *)
(* with more than one selector.  When every field passes its own checks    *)
(* the message is the mixing-aggregate one, or with selectors only the     *)
(* mixing-selectors one, provided the statement calls neither top or       *)
(* bottom nor a distinct outside other calls; those have rules of their    *)
(* own that are applied first.  A single selector with non-aggregate       *)
(* columns whose fields pass their checks is accepted.                     *)
C15_MixingRejected ==
    pc = "info_done" /\ ProjectsNonAggregate(sel) =>
        /\ AggregateCount(sel) > 0 \/ SelectorCount(sel) > 1 => ~info.ok
        /\ FieldsPassed /\ ~ProjectsTopBottom(sel) /\ ~ProjectsDistinct(sel) =>
              /\ AggregateCount(sel) > 0 => InfoError(MixingAggregate)
              /\ AggregateCount(sel) = 0 /\ SelectorCount(sel) > 1 => InfoError(MixingSelectors)
        /\ FieldsPassed /\ AggregateCount(sel) = 0 /\ SelectorCount(sel) = 1 => info.ok
        /\ FieldsPassed /\ ProjectsTopBottom(sel) /\ SumCalls(sel.fields) > 1 =>
              InfoError("selector functions top and bottom cannot be combined with other functions")

(* two selectors next to a bare field are rejected for mixing              *)
C15_Witness ==
    /\ InfoError(MixingSelectors)
    /\ ProjectsBareColumn(sel)
    /\ SelectorCount(sel) = 2

DistinctCombined == "aggregate function distinct() cannot be combined with other functions or fields"

TopBottomCombined == "selector functions top and bottom cannot be combined with other functions"

(* distinct is the single function of the statement and no field or tag is *)
(* projected beside it                                                     *)
DistinctAlone(q) == SumCalls(q.fields) = 1 /\ ~ProjectsNonAggregate(q)

(* C16: as the claim states it: a statement with a top-level distinct whose *)
(* fields each pass their own checks is accepted when distinct is its      *)
(* single function and no bare field or tag is projected, and fails with   *)
(* the distinct message otherwise.                                         *)
C16_DistinctMessage ==
    FieldsPassed /\ ProjectsDistinct(sel) =>
        IF DistinctAlone(sel) THEN info.ok ELSE InfoError(DistinctCombined)

(* C16: a statement with a top-level distinct is accepted only when        *)
(* distinct is its single function and no bare field or tag is projected,  *)
(* and then it is accepted.  Otherwise, its fields passing their own       *)
(* checks, it fails with the distinct message, except next to top or       *)
(* bottom, where it fails with the top and bottom message.  A distinct     *)
(* that is the argument of count or of a window function never fails with  *)
(* the distinct message.                                                   *)
C16_DistinctAlone ==
    /\ pc = "info_done" /\ ProjectsDistinct(sel) /\ info.ok => DistinctAlone(sel)
    /\ FieldsPassed /\ ProjectsDistinct(sel) =>
          IF DistinctAlone(sel) THEN info.ok
          ELSE IF ProjectsTopBottom(sel) THEN InfoError(TopBottomCombined)
          ELSE InfoError(DistinctCombined)
    /\ pc = "info_done" /\ ~ProjectsDistinct(sel) => ~InfoError(DistinctCombined)

(* distinct next to a bare field is rejected, and elsewhere count of        *)
(* distinct is accepted                                                    *)
C16_Witness ==
    /\ InfoError(DistinctCombined)
    /\ SumCalls(sel.fields) = 1
    /\ ProjectsBareColumn(sel)

(* C17: when the projection contains no aggregate, selector or window      *)
(* function, select_statement_info rejects a statement with a FILL clause  *)
(* and rejects a statement with GROUP BY time; when every field passes its *)
(* own checks the message is "<fill> must be used with an aggregate        *)
(* function" if there is a FILL clause, GROUP BY time or not, and "GROUP   *)
(* BY requires at least one aggregate function" if there is GROUP BY time  *)
(* and no FILL clause.                                                     *)
C17_NoFunctionRejected ==
    pc = "info_done" /\ SumCalls(sel.fields) = 0 =>
        /\ IsSome(sel.fill) \/ HasGroupByTime(sel) => ~info.ok
        /\ FieldsPassed /\ IsSome(sel.fill) => InfoError(sel.fill[1] \o " must be used with an aggregate function")
        /\ FieldsPassed /\ ~IsSome(sel.fill) /\ HasGroupByTime(sel) => InfoError("GROUP BY requires at least one aggregate function")
        /\ FieldsPassed /\ ~IsSome(sel.fill) /\ ~HasGroupByTime(sel) => info.ok

(* FILL and GROUP BY time without a function: the FILL message is given    *)
C17_Witness ==
    /\ FieldsPassed
    /\ SumCalls(sel.fields) = 0
    /\ IsSome(sel.fill)
    /\ HasGroupByTime(sel)
    /\ InfoError("FILL(PREVIOUS) must be used with an aggregate function")

-----------------------------------------------------------------------------
(* "<name>_<n>"                                                             *)
NumberedName(name, n) == name \o "_" \o ToString(n)

OutputNames(fields) == {field_name(fields[i]) : i \in DOMAIN fields}

(* the numbers up to k whose numbered name is the output name of no field  *)
FreeNumbers(name, fields, k) == {j \in 1..k : NumberedName(name, j) \notin OutputNames(fields)}

(* how many fields before the i-th have its output name                    *)
EarlierSame(fields, i) == Cardinality({j \in 1..(i - 1) : field_name(fields[j]) = field_name(fields[i])})

(* the alias the walk from left to right gives the i-th field: its output  *)
(* name if it is the first of that name, and for the m-th later one the    *)
(* name numbered with the m-th free number                                 *)
ExpectedAlias(fields, i) ==
    LET name == field_name(fields[i])
        m == EarlierSame(fields, i)
    IN  IF m = 0 THEN name
        ELSE NumberedName(name, CHOOSE n \in 1..(2 * Len(fields)) :
                                    n \in FreeNumbers(name, fields, n) /\ Cardinality(FreeNumbers(name, fields, n)) = m)

AliasesAsExpected(before, after) ==
    /\ Len(after) = Len(before)
    /\ \A i \in DOMAIN before :
          /\ after[i].expr = before[i].expr
          /\ after[i].alias = Some(ExpectedAlias(before, i))
          /\ (IsSome(before[i].alias) /\ \A j \in DOMAIN before : j # i => field_name(before[j]) # before[i].alias[1])
                => after[i].alias = before[i].alias

(* C18: field_list_rewrite_aliases walks the list from left to right: the  *)
(* first field with a given output name keeps that name as its alias, and  *)
(* each later field with the same output name gets "<name>_<n>" for the    *)
(* next number n, counted from 1, whose numbered name is the output name   *)
(* of no field of the list; a user alias that is the output name of one    *)
(* field only is not changed.                                              *)
C18_AliasWalk == [][pc = "normalized" /\ pc' = "aliased" => AliasesAsExpected(sel.fields, sel'.fields)]_vars

(* the third usage_user became usage_user_2 or usage_user_3 because the    *)
(* user had written the numbered names before it                           *)
C18_Witness ==
    /\ pc = "aliased"
    /\ \E i, j \in DOMAIN sel.fields :
          /\ i < j
          /\ sel.fields[i].alias = Some("usage_user_1")
          /\ sel.fields[j].alias = Some("usage_user_2")
          /\ \E k \in DOMAIN stmt.fields : stmt.fields[k].alias = Some("usage_user_1")
          /\ \A k \in DOMAIN stmt.fields : stmt.fields[k].alias # Some("usage_user_2")

-----------------------------------------------------------------------------
(* the projection after time normalization, told from the one before: the  *)
(* first top-level time column, or a fresh one, stands first and typed,    *)
(* the other fields follow in the order they had, and the alias of time is *)
(* "time" in a subquery or when none was written                           *)
TimeMovedFirst(before, after, is_subquery) ==
    IF TimeColumns(before) = {}
    THEN after = <<Field(VarRef("time", Some("Timestamp")), Some("time"))>> \o before
    ELSE LET p == FirstTimeColumn(before)
         IN  /\ Len(after) = Len(before)
             /\ after[1].expr = VarRef("time", Some("Timestamp"))
             /\ after[1].alias = (IF is_subquery \/ before[p].alias = None THEN Some("time") ELSE before[p].alias)
             /\ \A i \in 2..Len(after) : after[i] = before[IF i <= p THEN i - 1 ELSE i]

SourceTimeMovedFirst(before, after) ==
    IF before.kind = "Subquery"
    THEN /\ after.kind = "Subquery"
         /\ TimeMovedFirst(before.q[1].fields, after.q[1].fields, TRUE)
         /\ after.q[1] = [before.q[1] EXCEPT !.fields = after.q[1].fields]
    ELSE after = before

(* C19: time normalization moves the first top-level VarRef time of a      *)
(* projection to the front, or puts a fresh one there, and leaves the      *)
(* other fields in the order they had; in a subquery of the FROM list the  *)
(* alias of time becomes "time" whatever the user wrote, and in the outer  *)
(* statement an alias the user wrote is kept and "time" is set when there  *)
(* is none.                                                                *)
C19_TimeMovedFirst ==
    [][pc = "pruned" /\ pc' = "normalized" =>
          /\ TimeMovedFirst(sel.fields, sel'.fields, FALSE)
          /\ Len(sel'.from) = Len(sel.from)
          /\ \A i \in DOMAIN sel.from : SourceTimeMovedFirst(sel.from[i], sel'.from[i])
          /\ sel' = [sel EXCEPT !.fields = sel'.fields, !.from = sel'.from]]_vars

(* time AS t written second, in the statement and in its subquery: t is    *)
(* kept outside and replaced inside                                        *)
C19_Witness ==
    /\ pc = "normalized"
    /\ stmt.fields = <<F(V("usage_idle")), Field(V("time"), Some("t"))>>
    /\ stmt.from = <<MSubquery(Stmt(<<F(V("usage_idle")), Field(V("time"), Some("t"))>>, <<MName("cpu")>>, None))>>
    /\ sel.fields[1] = Field(VarRef("time", Some("Timestamp")), Some("t"))
    /\ sel.from[1].q[1].fields[1] = Field(VarRef("time", Some("Timestamp")), Some("time"))
    /\ Len(sel.from[1].q[1].fields) = 2

-----------------------------------------------------------------------------
(* the statement projects the wildcard alone, and map_select has expanded  *)
(* it                                                                      *)
WildcardMapped == pc = "mapped" /\ stmt.fields = <<F(Wildcard(None))>>

GroupByHasWildcard(s) == s.group_by # None /\ \E i \in DOMAIN s.group_by[1] : s.group_by[1][i].kind \in {"Wildcard", "Regex"}

GroupByTagNames(s) == IF s.group_by = None THEN {} ELSE {s.group_by[1][i].name : i \in {j \in DOMAIN s.group_by[1] : s.group_by[1][j].kind = "Tag"}}

(* the merged fields of the mapped FROM sources, with their types          *)
MergedFieldRefs == LET fs == from_field_and_dimensions(sel.from).fs IN {VarRef(n, Some(fs[n])) : n \in DOMAIN fs}

(* the tags of the mapped FROM sources that GROUP BY does not list; none   *)
(* when GROUP BY has a wildcard or a regular expression                    *)
RemainingTagRefs ==
    IF GroupByHasWildcard(stmt) THEN {}
    ELSE {VarRef(t, Some("Tag")) : t \in from_field_and_dimensions(sel.from).ts \ GroupByTagNames(stmt)}

Expanded == [i \in DOMAIN sel.fields |-> sel.fields[i].expr]

Occurrences(s, v) == Cardinality({i \in DOMAIN s : s[i] = v})

(* C20: as the claim states it: the sequence a projection wildcard expands *)
(* into lists all merged fields of the FROM sources sorted by name,        *)
(* followed by the remaining tags sorted by name.                          *)
C20_FieldsThenTags == WildcardMapped => Expanded = SortVarRefs(MergedFieldRefs) \o SortVarRefs(RemainingTagRefs)

(* C20: the sequence a projection wildcard expands into lists the merged   *)
(* fields of the FROM sources and the remaining tags (tags only when GROUP *)
(* BY has no wildcard or regex) together in one sequence sorted by name,   *)
(* tags and fields interleaved, a column that is both a merged field and a *)
(* remaining tag twice; it is empty when the sources have no field.        *)
C20_SortedTogether ==
    WildcardMapped =>
        IF MergedFieldRefs = {} THEN Expanded = <<>>
        ELSE /\ \A v \in MergedFieldRefs \cup RemainingTagRefs :
                   Occurrences(Expanded, v) = (IF v \in MergedFieldRefs THEN 1 ELSE 0) + (IF v \in RemainingTagRefs THEN 1 ELSE 0)
             /\ Len(Expanded) = Cardinality(MergedFieldRefs) + Cardinality(RemainingTagRefs)
             /\ \A i, j \in DOMAIN Expanded : i < j => Expanded[i] = Expanded[j] \/ VarRefLt(Expanded[i], Expanded[j])
             /\ \A i \in DOMAIN sel.fields : sel.fields[i].alias = None

(* FROM disk, cpu: the tag cpu stands between the fields bytes_used and    *)
(* usage_idle                                                              *)
C20_Witness ==
    /\ WildcardMapped
    /\ \E i, j, k \in DOMAIN sel.fields :
          /\ i < j /\ j < k
          /\ sel.fields[i].expr = VarRef("bytes_used", Some("Integer"))
          /\ sel.fields[j].expr = VarRef("cpu", Some("Tag"))
          /\ sel.fields[k].expr = VarRef("usage_idle", Some("Float"))

-----------------------------------------------------------------------------
(* the types one source of FROM gives a field name: a table the type of    *)
(* its field column, a subquery the types of its fields of that output     *)
(* name                                                                    *)
ContributedTypes(ds, n) ==
    IF ds.kind = "Table" THEN (IF IsFieldColumn(ds.name, n) THEN {TableFields(ds.name)[n]} ELSE {})
    ELSE {eval_type(ds.q[1].fields[i].expr, ds.q[1].from)[1] :
             i \in {j \in DOMAIN ds.q[1].fields : field_name(ds.q[1].fields[j]) = n /\ eval_type(ds.q[1].fields[j].expr, ds.q[1].from) # None}}

AllContributedTypes(from, n) == UNION {ContributedTypes(from[i], n) : i \in DOMAIN from}

SmallestType(S) == CHOOSE t \in S : \A u \in S : t = u \/ TypeLt(t, u)

SourceOrders(n) == {p \in [1..n -> 1..n] : \A i, j \in 1..n : p[i] = p[j] => i = j}

Permuted(s, p) == [i \in DOMAIN s |-> s[p[i]]]

(* C21: the merged field map of the mapped FROM sources gives every field  *)
(* name the smallest of the types its sources contribute, under Float <    *)
(* Integer < Unsigned < String < Boolean < Tag < Timestamp, holds no other *)
(* name, and is the same for every order of the sources.                   *)
C21_SmallestType ==
    pc = "mapped" =>
        LET fs == from_field_and_dimensions(sel.from).fs
        IN  /\ TypeOrder = <<"Float", "Integer", "Unsigned", "String", "Boolean", "Tag", "Timestamp">>
            /\ \A n \in DOMAIN fs : AllContributedTypes(sel.from, n) # {} /\ fs[n] = SmallestType(AllContributedTypes(sel.from, n))
            /\ \A i \in DOMAIN sel.from : \A n \in Range(NameOrder) :
                  ContributedTypes(sel.from[i], n) # {} => n \in DOMAIN fs
            /\ \A p \in SourceOrders(Len(sel.from)) : from_field_and_dimensions(Permuted(sel.from, p)).fs = fs

(* a subquery that gives usage_idle the type Tag is listed before the      *)
(* table cpu, and the wildcard expands to usage_idle as a Float            *)
C21_Witness ==
    /\ WildcardMapped
    /\ Len(sel.from) = 2
    /\ sel.from[1].kind = "Subquery"
    /\ ContributedTypes(sel.from[1], "usage_idle") = {"Tag"}
    /\ sel.from[2] = Table("cpu")
    /\ \E i \in DOMAIN sel.fields : sel.fields[i].expr = VarRef("usage_idle", Some("Float"))
    /\ \A i \in DOMAIN sel.fields : sel.fields[i].expr.name = "usage_idle" => sel.fields[i].expr.dt = Some("Float")

-----------------------------------------------------------------------------
HostTag == Field(VarRef("host", Some("Tag")), None)

(* the statement projects the wildcard, alone or next to the tag host      *)
(* written by name, and map_select has expanded it                         *)
WildcardAndTagMapped ==
    /\ pc = "mapped"
    /\ stmt.fields \in {<<F(Wildcard(None))>>, <<F(V("host")), F(Wildcard(None))>>, <<F(Wildcard(None)), F(V("host"))>>}

(* the fields the wildcard was expanded into                               *)
WildcardPart ==
    IF stmt.fields = <<F(Wildcard(None))>> THEN sel.fields
    ELSE IF stmt.fields[1] = F(Wildcard(None)) THEN SubSeq(sel.fields, 1, Len(sel.fields) - 1)
    ELSE Tail(sel.fields)

EmittedTags == {WildcardPart[i].expr.name : i \in {j \in DOMAIN WildcardPart : WildcardPart[j].expr.dt = Some("Tag")}}

SourceTags == from_field_and_dimensions(sel.from).ts

(* C22: as the claim states it, for sources that have a field: when GROUP  *)
(* BY has no wildcard or regex the projection wildcard emits every tag of  *)
(* the FROM sources but those named in GROUP BY, and when it has one the   *)
(* wildcard emits no tag; a tag written in the projection is kept.         *)
C22_TagsNotCovered ==
    WildcardAndTagMapped /\ MergedFieldRefs # {} =>
        /\ EmittedTags = (IF GroupByHasWildcard(stmt) THEN {} ELSE SourceTags \ GroupByTagNames(stmt))
        /\ Len(stmt.fields) = 2 => (IF stmt.fields[1] = F(V("host")) THEN sel.fields[1] = HostTag ELSE sel.fields[Len(sel.fields)] = HostTag)

(* the column types the claim admits for a call of the given name          *)
C23Admitted(name) ==
    {"Float", "Integer"}
    \cup (IF name \in {"holt_winters", "holt_winters_with_fit"} THEN {} ELSE {"Unsigned"})
    \cup (IF name \in {"count", "first", "last", "distinct", "elapsed", "mode", "sample"} THEN {"String", "Boolean"} ELSE {})
    \cup (IF name \in {"min", "max"} THEN {"Boolean"} ELSE {})

(* the statement projects one call whose first argument is a wildcard or a *)
(* regular expression, and it has been mapped                              *)
CallWildcardMapped ==
    /\ pc = "mapped"
    /\ Len(stmt.fields) = 1
    /\ IsCall(stmt.fields[1].expr)
    /\ stmt.fields[1].expr.args # <<>>
    /\ stmt.fields[1].expr.args[1] \in CallWildcards

(* the names of the columns of the FROM sources the call is expanded over  *)
AdmittedColumns ==
    LET c == stmt.fields[1].expr
        fs == from_field_and_dimensions(sel.from).fs
    IN  {n \in DOMAIN fs : /\ fs[n] \in C23Admitted(c.name)
                           /\ IsRegexLiteral(c.args[1]) => n \in RegexMatchSet(c.args[1].str)}

CallOver(n) ==
    LET f == stmt.fields[1]
        fs == from_field_and_dimensions(sel.from).fs
    IN  Field(Call(f.expr.name, [f.expr.args EXCEPT ![1] = VarRef(n, Some(fs[n]))]), Some(field_name(f) \o "_" \o n))

(* C23: a call whose first argument is `*`, `*::field` or a regular        *)
(* expression is replaced by exactly one field per admitted column of the  *)
(* FROM sources, in sorted column-name order, each the call over that      *)
(* column with the alias "<output name of the original field>_<column>";   *)
(* a column is admitted when its type is Float, Integer or Unsigned, also  *)
(* String or Boolean for count, first, last, distinct, elapsed, mode and   *)
(* sample, also Boolean for min and max, never Unsigned for holt_winters,  *)
(* and for a regular expression when its name matches too; tags are never  *)
(* admitted.                                                               *)
C23_CallWildcard ==
    CallWildcardMapped =>
        LET names == SortNames(AdmittedColumns)
        IN  sel.fields = [i \in DOMAIN names |-> CallOver(names[i])]

C23_Witness ==
    /\ CallWildcardMapped
    /\ stmt.fields[1].expr.name = "count"
    /\ stmt.fields[1].expr.args[1] = Wildcard(None)
    /\ Len(sel.fields) = 5
    /\ sel.fields[1].alias = Some("count_field_bool")
    /\ sel.fields[4].expr = Call("count", <<VarRef("field_str", Some("String"))>>)

(* the statement projects one call f(g(w), ..) whose inner call g has a    *)
(* wildcard or a regular expression as its first argument, and it has been *)
(* mapped                                                                  *)
NestedCallWildcardMapped ==
    /\ pc = "mapped"
    /\ Len(stmt.fields) = 1
    /\ IsCall(stmt.fields[1].expr)
    /\ stmt.fields[1].expr.args # <<>>
    /\ IsCall(stmt.fields[1].expr.args[1])
    /\ stmt.fields[1].expr.args[1].args # <<>>
    /\ stmt.fields[1].expr.args[1].args[1] \in CallWildcards

(* f(g(w), ..) with only w replaced by the column v                        *)
WholeCallOver(v) ==
    LET f == stmt.fields[1].expr
        g == f.args[1]
    IN  Call(f.name, [f.args EXCEPT ![1] = Call(g.name, [g.args EXCEPT ![1] = v])])

(* C24: for nested calls, f of g of a wildcard, each emitted field is the  *)
(* whole original call with only the wildcard replaced by a column,        *)
(* f(g(x)): the enclosing call f and its other arguments are kept.         *)
C24_WholeCallKept ==
    NestedCallWildcardMapped =>
        \A i \in DOMAIN sel.fields :
            \E v \in MergedFieldRefs : sel.fields[i].expr = WholeCallOver(v)

WindowFunctions ==
    {"derivative", "non_negative_derivative", "elapsed", "difference", "non_negative_difference", "cumulative_sum", "moving_average",
     "exponential_moving_average", "double_exponential_moving_average", "triple_exponential_moving_average",
     "relative_strength_index", "triple_exponential_derivative",
     "kaufmans_efficiency_ratio", "kaufmans_adaptive_moving_average", "chande_momentum_oscillator"}

(* the arguments after the first are the ones the function takes           *)
OtherArgsValid(e) ==
    LET n == Len(e.args)
        period == n >= 2 /\ IsLitInteger(e.args[2]) /\ e.args[2].num >= 1
        hold(least) == n >= 3 => IsLitInteger(e.args[3]) /\ (e.args[3].num >= least \/ e.args[3].num = -1)
        warmup(allowed) == n >= 4 => IsLitString(e.args[4]) /\ e.args[4].str \in allowed
    IN  CASE e.name \in {"derivative", "non_negative_derivative", "elapsed"} ->
                n \in 1..2 /\ (n = 2 => IsLitDuration(e.args[2]) /\ e.args[2].num > 0)
          [] e.name \in {"difference", "non_negative_difference", "cumulative_sum"} -> n = 1
          [] e.name = "moving_average" -> n = 2 /\ IsLitInteger(e.args[2]) /\ e.args[2].num > 1
          [] e.name \in {"kaufmans_efficiency_ratio", "kaufmans_adaptive_moving_average"} -> n \in 2..3 /\ period /\ hold(0)
          [] e.name = "chande_momentum_oscillator" -> n \in 2..4 /\ period /\ hold(0) /\ warmup({"none", "exponential", "simple"})
          [] OTHER -> n \in 2..4 /\ period /\ hold(IF e.name = "triple_exponential_derivative" THEN 1 ELSE 0) /\ warmup({"exponential", "simple"})

(* the field about to be checked is a call of a window function with the   *)
(* other arguments in order                                                *)
WindowCallNext ==
    /\ pc = "check_fields"
    /\ idx <= Len(sel.fields)
    /\ IsCall(sel.fields[idx].expr)
    /\ sel.fields[idx].expr.name \in WindowFunctions
    /\ OtherArgsValid(sel.fields[idx].expr)

WindowRule(e, accepted, error) ==
    LET a == e.args[1]
    IN  /\ IsCall(a) /\ ~HasGroupByTime(sel) => ~accepted /\ error.msg = e.name \o " aggregate requires a GROUP BY interval"
        /\ ~IsCall(a) /\ HasGroupByTime(sel) => ~accepted /\ error.msg = "aggregate function required inside the call to " \o e.name
        /\ IsCall(a) /\ HasGroupByTime(sel) => (accepted <=> check_expr(fc, a).ok)
        /\ ~IsCall(a) /\ ~HasGroupByTime(sel) => (accepted <=> IsVarRef(a))

(* C25: for a window function that uses the nested-symbol rule, a first    *)
(* argument that is a call is rejected with "<name> aggregate requires a   *)
(* GROUP BY interval" when the statement has no GROUP BY time; a first     *)
(* argument that is not a call is rejected with "aggregate function        *)
(* required inside the call to <name>" when the statement has a GROUP BY   *)
(* time; otherwise the field is accepted iff the argument is a VarRef or a *)
(* nested call that itself passes the field checks.                        *)
C25_NestedSymbolRule ==
    [][WindowCallNext => WindowRule(sel.fields[idx].expr, pc' = "check_fields", info'.err)]_vars

C25_Witness ==
    /\ InfoError("derivative aggregate requires a GROUP BY interval")
    /\ sel.fields[idx].expr = Fn("derivative", Fn("mean", U))
    /\ ~HasGroupByTime(sel)

C25_WitnessAccepted ==
    /\ pc = "check_fields"
    /\ idx = 2
    /\ sel.fields[1].expr = Fn2("kaufmans_adaptive_moving_average", Fn("mean", U), 2)
    /\ HasGroupByTime(sel)

Subqueries(from) == SelectSeq(from, LAMBDA ds : ds.kind = "Subquery")

IsExpanding(f) ==
    \/ IsWildcard(f.expr) \/ IsRegexLiteral(f.expr)
    \/ IsCall(f.expr) /\ InnermostCall(f.expr).args # <<>>
       /\ (IsWildcard(InnermostCall(f.expr).args[1]) \/ IsRegexLiteral(InnermostCall(f.expr).args[1]))

(* the alias of a field g that came from the written field f, which        *)
(* expands: the alias as written, or, per column, none for a wildcard and  *)
(* the written field's output name and the column for a call               *)
BlockAlias(f, g, per_column) ==
    IF ~per_column THEN g.alias = f.alias
    ELSE IF IsCall(f.expr) THEN IsCall(g.expr) /\ g.alias = Some(field_name(f) \o "_" \o g.expr.args[1].name)
    ELSE g.alias = None

RECURSIVE AliasesKept(_, _, _)

(* the mapped fields are the written fields in order, a written field that *)
(* does not expand with its alias as written, and every field that came    *)
(* from a written field that expands with the alias BlockAlias allows     *)
AliasesKept(written, mapped, per_column) ==
    IF written = <<>> THEN mapped = <<>>
    ELSE IF IsExpanding(Head(written))
    THEN \E k \in 0..Len(mapped) :
            /\ \A i \in 1..k : BlockAlias(Head(written), mapped[i], per_column)
            /\ AliasesKept(Tail(written), SubSeq(mapped, k + 1, Len(mapped)), per_column)
    ELSE /\ mapped # <<>>
         /\ Head(mapped).alias = Head(written).alias
         /\ AliasesKept(Tail(written), Tail(mapped), per_column)

RECURSIVE SubqueriesKept(_, _, _)

(* every subquery of the written FROM list is mapped, in order, and at     *)
(* every depth, to a subquery whose fields keep the aliases                *)
SubqueriesKept(written, mapped, per_column) ==
    LET w == Subqueries(written)
        m == Subqueries(mapped)
    IN  /\ Len(m) = Len(w)
        /\ \A i \in DOMAIN w :
              /\ AliasesKept(w[i].q[1].fields, m[i].q[1].fields, per_column)
              /\ SubqueriesKept(w[i].q[1].from, m[i].q[1].from, per_column)

RECURSIVE SubqueryFields(_)

(* the field lists of the subqueries of a FROM list, at every depth        *)
SubqueryFields(from) ==
    UNION {{ds.q[1].fields} \cup SubqueryFields(ds.q[1].from) : ds \in {from[i] : i \in {j \in DOMAIN from : from[j].kind = "Subquery"}}}

(* what each pass of rewrite_statement does to the fields of the           *)
(* subqueries under FROM                                                   *)
SubqueryAliasesKept(per_column) ==
    /\ pc = "start" /\ pc' = "mapped" => SubqueriesKept(stmt.from, sel'.from, per_column)
    /\ pc = "mapped" /\ pc' = "pruned" => SubqueryFields(sel'.from) \subseteq SubqueryFields(sel.from)
    /\ pc = "pruned" /\ pc' = "normalized" =>
          /\ Len(sel'.from) = Len(sel.from)
          /\ \A i \in DOMAIN sel.from :
                IF sel.from[i].kind = "Subquery"
                THEN LET before == sel.from[i].q[1]
                         after == sel'.from[i].q[1]
                         p == TimePosition(before.fields)
                     IN  /\ Tail(after.fields) = (IF p = 0 THEN before.fields ELSE RemoveAt(before.fields, p))
                         /\ after.from = before.from
                ELSE sel'.from[i] = sel.from[i]
    /\ pc = "normalized" /\ pc' = "aliased" => sel'.from = sel.from
    /\ pc = "aliased" /\ pc' = "done" => result'.select.from = sel.from

(* C26: as the claim states it: in every subquery under FROM each field    *)
(* other than the leading time column has exactly the alias the user       *)
(* wrote, and none if none was written.                                    *)
C26_AliasesAsWritten == [][SubqueryAliasesKept(FALSE)]_vars

(* C26: rewrite_statement runs the alias pass on the field list of the     *)
(* outer statement only: in every subquery under FROM, at every depth,     *)
(* each written field other than the leading time column keeps exactly the *)
(* alias the user wrote, and none if none was written, even when two       *)
(* fields share an output name; the fields a wildcard expands to have no   *)
(* alias, and the fields a call over a wildcard or a regular expression    *)
(* expands to are given the alias "<output name of the call>_<column>".    *)
C26_AliasesKept == [][SubqueryAliasesKept(TRUE)]_vars

(* two subquery fields with the alias a, returned as written               *)
C26_Witness ==
    /\ pc = "done"
    /\ result.ok
    /\ stmt.from = <<MSubquery(Stmt(<<Field(V("usage_idle"), Some("a")), Field(V("usage_system"), Some("a"))>>, <<MName("cpu")>>, None))>>
    /\ stmt.fields = <<F(V("a")), F(V("a"))>>
    /\ Len(result.select.from) = 1
    /\ Len(result.select.from[1].q[1].fields) = 3
    /\ result.select.from[1].q[1].fields[2].alias = Some("a")
    /\ result.select.from[1].q[1].fields[3].alias = Some("a")
    /\ result.select.fields[2].alias = Some("a")
    /\ result.select.fields[3].alias = Some("a_1")

(* the statement has been mapped and pruned                                *)
Pruned == pc = "pruned"

TablesOnly(from) == \A i \in DOMAIN from : from[i].kind # "Subquery"

(* the typed variable references of a mapped projection                    *)
ProjectedRefs(fields) == UNION {{x \in SubExprs(fields[i].expr) : IsVarRef(x)} : i \in DOMAIN fields}

(* no name the projection references is a field column of a measurement    *)
ReferencesNoField(fields) == \A n \in FieldsNames(fields) : \A i \in DOMAIN TableNames : ~IsFieldColumn(TableNames[i], n)

RECURSIVE NoFieldSubqueryKept(_)

(* at every depth, no subquery is kept that has only measurements to read  *)
(* from and references no field column                                     *)
NoFieldSubqueryKept(from) ==
    \A i \in DOMAIN from :
        from[i].kind = "Subquery" =>
            /\ from[i].q[1].from # <<>>
            /\ ~(TablesOnly(from[i].q[1].from) /\ ReferencesNoField(from[i].q[1].fields))
            /\ NoFieldSubqueryKept(from[i].q[1].from)

(* no subquery directly under FROM has a written field named time          *)
NoWrittenTime(from) ==
    \A i \in DOMAIN from : from[i].kind = "Subquery" => \A j \in DOMAIN from[i].q[1].fields : field_name(from[i].q[1].fields[j]) # "time"

(* C27: as the claim states it: a statement whose projection references    *)
(* only tags and time of its sources is returned with an empty FROM.       *)
C27_TagsOnlyEmptyFrom ==
    Pruned /\ (\A x \in ProjectedRefs(sel.fields) : x.dt \in {Some("Tag"), Some("Timestamp")}) => sel.from = <<>>

(* C27: sources are pruned before the time column is normalized, so the    *)
(* inserted time column keeps no source: a statement that reads from       *)
(* measurements only and references no field column of them, only tags,    *)
(* time or unknown names, is left with an empty FROM and returned          *)
(* successfully; a subquery that reads from measurements only and          *)
(* references no field column is removed from its parent, at every depth;  *)
(* and a statement that references nothing but time keeps no source unless *)
(* a subquery wrote a time field itself.                                   *)
C27_PrunedBeforeTime ==
    /\ Pruned /\ TablesOnly(stmt.from) /\ ReferencesNoField(sel.fields) => sel.from = <<>>
    /\ Pruned => NoFieldSubqueryKept(sel.from)
    /\ Pruned /\ FieldsNames(stmt.fields) = {"time"} /\ FieldsNames(sel.fields) = {"time"} /\ NoWrittenTime(stmt.from) => sel.from = <<>>
    /\ pc = "done" /\ sel.fields # <<>> => result.ok /\ result.select = sel

(* SELECT time FROM (SELECT usage_idle FROM cpu): returned with no source  *)
C27_Witness ==
    /\ pc = "done"
    /\ result.ok
    /\ stmt.fields = <<F(V("time"))>>
    /\ stmt.from = <<MSubquery(Stmt(<<F(V("usage_idle"))>>, <<MName("cpu")>>, None))>>
    /\ result.select.from = <<>>
    /\ result.select.fields = <<Field(VarRef("time", Some("Timestamp")), Some("time"))>>

(* the rows seen so far that carry a value                                 *)
Valued == {r \in seen : r.value # None}

ValuedTimes == {r.time : r \in Valued}

(* the selector holds the time t and the value of a valued row seen at t   *)
HoldsRowAt(t) == selector.time = Some(t) /\ \E r \in Valued : r.time = t /\ r.value = selector.value

Untouched == selector.value = None /\ selector.time = None

(* C28: after any sequence of update_batch calls a FirstSelector holds the *)
(* smallest, and a LastSelector the largest, timestamp over the rows seen  *)
(* whose value is not null, together with the value of a row with that     *)
(* timestamp; rows with a null value never influence the result, and a     *)
(* batch that brings no new row with a value leaves the state unchanged.   *)
C28_FirstLast ==
    /\ [](selector.kind = "first" => IF Valued = {} THEN Untouched ELSE HoldsRowAt(SetMin(ValuedTimes)))
    /\ [](selector.kind = "last" => IF Valued = {} THEN Untouched ELSE HoldsRowAt(SetMax(ValuedTimes)))
    /\ [][selector.kind \in {"first", "last"} /\ {r \in seen' : r.value # None} = Valued => selector' = selector]_vars

(* a null row at 100 and a valued row at 200 seen: first holds 200         *)
C28_Witness ==
    /\ selector.kind = "first"
    /\ [value |-> None, time |-> 100] \in seen
    /\ ValuedTimes = {200}
    /\ selector.time = Some(200)
    /\ selector.value = Some(Num(1))

SeenNumbers == {r.value[1].num : r \in {q \in Valued : ~q.value[1].nan}}

SeenNaN == \E r \in Valued : r.value[1].nan

(* the extreme value of the rows seen, with NaN either counted as the      *)
(* greatest value or left out                                              *)
ExtremeValues(kind) ==
    LET number == IF SeenNumbers = {} THEN None ELSE Some(Num(IF kind = "min" THEN SetMin(SeenNumbers) ELSE SetMax(SeenNumbers)))
    IN  IF ~SeenNaN THEN {number}
        ELSE IF kind = "max" \/ SeenNumbers = {} THEN {Some(NaN), number}
        ELSE {number}

(* the lowest time among the rows seen that carry the value v; for NaN     *)
(* also no time, as no row compares equal to it                            *)
LowestTimes(v) ==
    IF v = None THEN {None}
    ELSE {Some(SetMin({r.time : r \in {q \in Valued : q.value = v}}))} \cup (IF v[1].nan THEN {None} ELSE {})

(* C29: after any sequence of update_batch calls a min selector holds the  *)
(* smallest, and a max selector the largest, non-null value seen, and its  *)
(* time is the lowest timestamp among all rows seen, in whatever batches,  *)
(* that carry exactly that value: the result depends on the rows only, not *)
(* on the order of the batches or on how the rows are split over them.     *)
C29_ExtremeValueLowestTime ==
    selector.kind \in {"min", "max"} =>
        /\ selector.value \in ExtremeValues(selector.kind)
        /\ selector.time \in LowestTimes(selector.value)

(* the same for the rows of an integer, string or boolean selector, and of *)
(* an f64 selector that has seen no NaN                                    *)
ExtremeValueWithoutNaN ==
    selector.kind \in {"min", "max"} /\ ~SeenNaN =>
        /\ selector.value \in ExtremeValues(selector.kind)
        /\ selector.time \in LowestTimes(selector.value)

(* a request has been answered                                             *)
Answered == IsSome(authz.response)

Answer == authz.response[1]

(* what the permissions call gives for the request                         *)
Granted == permissions(authz.authorizer, authz.token, authz.perms)

(* C30: require_any_permission returns Forbidden exactly when the          *)
(* permissions call succeeds with an empty list, and hands on the error    *)
(* when the call fails; an absent authorizer (None) returns the requested  *)
(* permissions unchanged for any token, no token included, so with         *)
(* authorization disabled require_any_permission succeeds for every        *)
(* request that asks for at least one permission.                          *)
C30_ForbiddenIffEmpty ==
    Answered =>
        /\ (~Answer.ok /\ Answer.err.category = "Forbidden") <=> (Granted.ok /\ Granted.val = <<>>)
        /\ ~Granted.ok => Answer = Granted
        /\ Granted.ok /\ Granted.val # <<>> => Answer.ok
        /\ IsSome(authz.authorizer) /\ authz.token = None => ~Answer.ok /\ Answer.err.category = "NoToken"
        /\ IsSome(authz.authorizer) /\ ~authz.authorizer[1].up /\ authz.token # None => ~Answer.ok /\ Answer.err.category = "Verification"
        /\ authz.authorizer = None => Granted = Ok(authz.perms)
        /\ authz.authorizer = None /\ authz.perms # <<>> => Answer.ok

(* authorization disabled, no token, one permission asked: Ok              *)
C30_Witness ==
    /\ Answered
    /\ authz.authorizer = None
    /\ authz.token = None
    /\ authz.perms = <<"write">>
    /\ Answer.ok
====
